---- MODULE Spec2Model ----
(***************************************************************************)
(* Model of the notebookllama document enrichment pipeline:                *)
(*   - run_enhanced_workflow_v2 and the four steps of EnhancedWorkflowV2   *)
(*     (enhanced_workflow_v2.py),                                          *)
(*   - the validated event classes (workflow_events.py),                   *)
(*   - ContentEnhancer.enhance_document with its four concurrent           *)
(*     sub-tasks, parsers, validators and fallbacks (content_enhancer.py), *)
(*   - DoclingProcessor.process_document with its PyPDF2 fallback          *)
(*     (fixed_docling_processor.py),                                       *)
(*   - the steps of MCPEnhancedWorkflowV2 and its runner                   *)
(*     (mcp_enhanced_workflow_v2.py), specification SpecMCP,               *)
(*   - PostgreSQLDocumentManager.put_document with its two chunkers        *)
(*     (postgres_manager.py), specification SpecStore,                     *)
(*   - EnhancedQueryEngine.query_index with the searches of the manager    *)
(*     (enhanced_querying.py, postgres_manager.py), specification          *)
(*     SpecQuery,                                                          *)
(*   - StreamlitAsyncHandler.run_async_task (streamlit_async_handler.py),  *)
(*     specification SpecHandler.                                          *)
(*                                                                         *)
(* Strings are modelled run-length encoded: a text is a sequence of runs   *)
(* [c |-> class, n |-> count], n >= 1, where the class is                  *)
(*   "a"  ordinary non-whitespace characters (lower case)                  *)
(*   "U"  upper-case letters, which lower() turns into class "a"           *)
(*   "."  period            "?"  question mark                             *)
(*   "s"  space             "n"  newline                                   *)
(*   "L"  the literal label "Summary:" (8 characters)                      *)
(*   "Q"  a question marker matching Q\d+: such as "Q1:" (3 characters)    *)
(*   "A"  an answer marker matching A\d+: such as "A1:" (3 characters)     *)
(*   "N"  a list number matching \d+[.)] such as "1." (2 characters)       *)
(*   "B"  a bullet "-" (1 character)                                       *)
(* Every string operation of the code (len, strip, split, regex parsing,   *)
(* slicing) is computed on this encoding.  Scores are in hundredths.       *)
(***************************************************************************)
EXTENDS Integers, Sequences, FiniteSets, TLC

VARIABLES
    pc,              \* position of run_enhanced_workflow_v2: "idle", "running", "done"
    inflight,        \* the event currently travelling through the workflow
    active,          \* the step whose body is executing across a suspension point
    prepared,        \* enhance_document: the prompt copy made by _prepare_content
    tasks,           \* enhance_document: the four sub-tasks handed to asyncio.gather
    enhanced,        \* history: the value enhance_document returned
    entered,         \* history: the steps entered in this run, in order
    extracted,       \* history: the content string the extractor returned
    extractAttempts, \* history: extraction attempts made (Docling, PyPDF2)
    result,          \* the value run_enhanced_workflow_v2 returned
    raisedOut,       \* TRUE iff an exception left run_enhanced_workflow_v2
    document,        \* history: the DocumentProcessedEvent of the run, once created
    mcp,             \* MCPEnhancedWorkflowV2: enable_mcp, _mcp_initialized, tools
    mcpMemory,       \* the entities the run stored in the MCP memory server
    manager,         \* PostgreSQLDocumentManager: embedding_model and vector_store set or None
    documents,       \* the rows of table documents_enhanced, in insertion order
    chunkTable,      \* the rows of table document_chunks, in insertion order
    vectorStore,     \* the nodes added to the PGVectorStore, in insertion order
    chunked,         \* history: content and content_chunks of the last chunking loop
    lastPut,         \* history: the last put_document call and how it ended
    clock,           \* int(time.time()): the second the wall clock shows
    issued,          \* history: the ids the page handed to put_document, in order
    lastQuery,       \* history: the last query_index call and what it returned
    lastSnippet,     \* history: the last _extract_relevant_snippet call and its value
    call,            \* run_async_task: the call in progress and where it stands
    coroutine,       \* the coroutine handed to run_async_task
    loopTask,        \* the task created on the caller's running loop
    threadTask,      \* the task of the event loop created in the executor thread
    active_tasks,    \* StreamlitAsyncHandler.active_tasks
    outcome,         \* what run_async_task returned or raised
    session,         \* st.session_state: the stored result under each session key
    lastRun          \* history: the last run_workflow_async call and what it returned

\* the state of a workflow run
workflowVars == <<pc, inflight, active, prepared, tasks, enhanced, entered, extracted, extractAttempts, result, raisedOut, document, mcp, mcpMemory>>

\* the state of the document store
storeVars == <<manager, documents, chunkTable, vectorStore, chunked, lastPut, clock, issued>>

\* the state of the query engine
queryVars == <<lastQuery, lastSnippet>>

\* the state of the async handler
\* the state of one run_async_task call
taskVars == <<call, coroutine, loopTask, threadTask, active_tasks, outcome>>

\* the state of the Streamlit session
sessionVars == <<session, lastRun>>

handlerVars == <<taskVars, sessionVars>>

vars == <<pc, inflight, active, prepared, tasks, enhanced, entered, extracted,
          extractAttempts, result, raisedOut, document, mcp, mcpMemory, storeVars,
          queryVars, handlerVars>>

(***************************************************************************)
(* Bounds of the model                                                     *)
(***************************************************************************)
MaxPairs == 3        \* Q/A pairs in one completion response
MaxLines == 3        \* list lines in one completion response

(***************************************************************************)
(* Program constants                                                       *)
(***************************************************************************)
MinContentChars == 10
MinTitleChars == 1
MinSummaryChars == 50
MinQAPairs == 3
MinKeyPoints == 3
MinTopics == 3
MinQuestionChars == 10
MinAnswerChars == 20
MinMindMapChars == 50
chunk_size == 4000
max_key_points == 8
max_topics == 6
MaxTopicWords == 3
PreviewChars == 1000
NotebookPreviewChars == 5000
FallbackQuality == 50

(***************************************************************************)
(* Run-length encoded strings                                              *)
(***************************************************************************)
Run(c, n) == [c |-> c, n |-> n]

IsWs(r) == r.c \in {"s", "n"}

\* a function with domain 1..n, as a sequence
AsSeq(f) == f \o <<>>

\* the elements of S within lo..hi in increasing order
RECURSIVE SortedIn(_, _, _)
SortedIn(S, lo, hi) ==
    IF lo > hi THEN <<>>
    ELSE IF lo = hi THEN (IF lo \in S THEN <<lo>> ELSE <<>>)
    ELSE SortedIn(S, lo, (lo + hi) \div 2) \o SortedIn(S, (lo + hi) \div 2 + 1, hi)

\* number of characters of the runs i..j
RECURSIVE RangeLen(_, _, _)
RangeLen(t, i, j) ==
    IF i > j THEN 0
    ELSE IF i = j THEN t[i].n
    ELSE RangeLen(t, i, (i + j) \div 2) + RangeLen(t, (i + j) \div 2 + 1, j)

\* len(text)
StrLen(t) == RangeLen(t, 1, Len(t))

Blank(t) == \A i \in 1..Len(t) : IsWs(t[i])

LStrip(t) ==
    IF Blank(t) THEN <<>>
    ELSE SubSeq(t, CHOOSE i \in 1..Len(t) :
                       ~IsWs(t[i]) /\ \A j \in 1..(i - 1) : IsWs(t[j]),
                Len(t))

RStrip(t) ==
    IF Blank(t) THEN <<>>
    ELSE SubSeq(t, 1, CHOOSE i \in 1..Len(t) :
                          ~IsWs(t[i]) /\ \A j \in (i + 1)..Len(t) : IsWs(t[j]))

\* text.strip()
Strip(t) == RStrip(LStrip(t))

\* len(text.split()): the number of maximal groups of non-whitespace runs
WordCount(t) ==
    Cardinality({i \in 1..Len(t) : ~IsWs(t[i]) /\ (i = 1 \/ IsWs(t[i - 1]))})

EndsWithQ(t) == t # <<>> /\ t[Len(t)].c = "?"

\* the first k characters of the runs i..j
RECURSIVE TakeFrom(_, _, _, _)
TakeFrom(t, i, j, k) ==
    IF k <= 0 \/ i > j THEN <<>>
    ELSE IF i = j THEN <<Run(t[i].c, IF t[i].n <= k THEN t[i].n ELSE k)>>
    ELSE LET m == (i + j) \div 2
             left == RangeLen(t, i, m)
         IN  IF left >= k THEN TakeFrom(t, i, m, k)
             ELSE SubSeq(t, i, m) \o TakeFrom(t, m + 1, j, k - left)

\* text[:k]
Take(t, k) == TakeFrom(t, 1, Len(t), k)

\* words of the given lengths joined by single spaces
Words(lens) ==
    AsSeq([i \in 1..(2 * Len(lens) - 1) |->
              IF i % 2 = 1 THEN Run("a", lens[(i + 1) \div 2]) ELSE Run("s", 1)])

\* a literal sentence: words, the last one ending in the punctuation mark c
Sentence(lens, c) == Words(lens) \o <<Run(c, 1)>>

\* str(n) for a non-negative integer
RECURSIVE Digits(_)
Digits(n) == IF n < 10 THEN 1 ELSE 1 + Digits(n \div 10)

IntStr(n) == <<Run("a", Digits(n))>>

Min(a, b) == IF a <= b THEN a ELSE b

NoText == <<>>

\* t repeated k times
Repeat(t, k) == AsSeq([i \in 1..(k * Len(t)) |-> t[((i - 1) % Len(t)) + 1]])

(***************************************************************************)
(* Inputs: what the external collaborators can hand to the pipeline        *)
(***************************************************************************)
\* "Alpha beta gamma. " : one short sentence followed by a space
ShortSentence == Sentence(<<5, 4, 5>>, ".") \o <<Run("s", 1)>>

\* a sentence of twelve words followed by a space
LongSentence == Sentence(<<5, 4, 5, 3, 6, 2, 4, 7, 3, 5, 4, 6>>, ".") \o <<Run("s", 1)>>

PlainContent == Repeat(ShortSentence, 3) \o Sentence(<<4, 6>>, ".")
PaddedContent == <<Run("n", 1)>> \o PlainContent \o <<Run("n", 2)>>
WordyContent == Repeat(LongSentence, 3) \o Sentence(<<4, 6>>, ".") \o <<Run("n", 1)>>
LongContent == <<Run("a", 3500), Run(".", 1), Run("s", 1), Run("a", 2500),
                 Run("n", 4), Run("a", 20), Run("s", 3)>>
TinyContent == Words(<<5>>)
BlankContent == <<Run("s", 3)>>

Contents == {NoText, TinyContent, BlankContent, PlainContent, PaddedContent,
             WordyContent, LongContent}

UntitledDocument == Words(<<8, 8>>)
PyPDF2Title == Words(<<8, 7, 9>>)
Titles == {UntitledDocument, <<Run("s", 2)>>}

FilePaths == {"", "doc.pdf"}

\* result.document of the Docling converter, or its failure
DoclingOutcomes ==
    {[ok |-> TRUE, content |-> c, title |-> t] : c \in Contents, t \in Titles}
    \cup {[ok |-> FALSE, content |-> NoText, title |-> NoText]}

\* page.extract_text() of the single page PyPDF2 reads, or the reader's failure
PdfOutcomes ==
    {[ok |-> TRUE, text |-> c] : c \in {NoText, PaddedContent}}
    \cup {[ok |-> FALSE, text |-> NoText]}

(***************************************************************************)
(* fixed_docling_processor.py                                              *)
(***************************************************************************)
\* "## Page 1\n\n{text}" for the page if its text is not blank
_pypdf2_fallback(p) ==
    IF ~p.ok THEN [ok |-> FALSE, content |-> NoText, title |-> NoText,
                   error |-> "All document processing methods failed"]
    ELSE [ok |-> TRUE,
          content |-> IF Strip(p.text) # <<>>
                      THEN Words(<<2, 4, 1>>) \o <<Run("n", 2)>> \o p.text
                      ELSE NoText,
          title |-> PyPDF2Title, error |-> ""]

\* DoclingProcessor.process_document: Docling first, PyPDF2 when it raises
DoclingProcess(d, p) ==
    IF d.ok THEN [ok |-> TRUE, content |-> d.content, title |-> d.title, error |-> ""]
    ELSE _pypdf2_fallback(p)

DoclingAttempts(d) == IF d.ok THEN 1 ELSE 2

(***************************************************************************)
(* workflow_events.py: validated events                                    *)
(***************************************************************************)
NoEvent == [type |-> "None"]

StartEvent(file_path) == [type |-> "StartEvent", file_path |-> file_path]

StopEvent(r) == [type |-> "StopEvent", result |-> r]

\* variant: DocumentProcessedEvent.__init__ without the floor on the content
DocumentProcessedEventValid_NoFloor(raw_content, title) ==
    /\ raw_content # <<>>
    /\ ~(title = <<>> \/ StrLen(Strip(title)) < MinTitleChars)

\* the checks of DocumentProcessedEvent.__init__ (metadata is always a dict here)
DocumentProcessedEventValid(raw_content, title) ==
    /\ ~(raw_content = <<>> \/ StrLen(Strip(raw_content)) < MinContentChars)
    /\ ~(title = <<>> \/ StrLen(Strip(title)) < MinTitleChars)

DocumentProcessedEvent(raw_content, title, file_path) ==
    [type |-> "DocumentProcessedEvent",
     raw_content |-> Strip(raw_content),
     title |-> Strip(title),
     file_path |-> file_path]

content_size(ev) == StrLen(ev.raw_content)

\* raw_content[:max_chars] + "..." when longer
get_content_preview(ev, max_chars) ==
    IF StrLen(ev.raw_content) <= max_chars THEN ev.raw_content
    ELSE Take(ev.raw_content, max_chars) \o <<Run(".", 3)>>

\* create_document_processed_event: the event, or ValueError
create_document_processed_event(docling_result, file_path) ==
    IF DocumentProcessedEventValid(docling_result.content, docling_result.title)
    THEN [ok |-> TRUE,
          event |-> DocumentProcessedEvent(docling_result.content,
                                           docling_result.title, file_path),
          error |-> ""]
    ELSE [ok |-> FALSE, event |-> NoEvent,
          error |-> "Invalid Docling result format"]

(***************************************************************************)
(* content_enhancer.py: string helpers                                     *)
(***************************************************************************)
\* adjacent runs of one class are one run
Canon(t) ==
    LET starts == SortedIn({i \in 1..Len(t) : i = 1 \/ t[i].c # t[i - 1].c}, 1, Len(t))
        last(g) == IF g = Len(starts) THEN Len(t) ELSE starts[g + 1] - 1
    IN  AsSeq([g \in 1..Len(starts) |->
                  Run(t[starts[g]].c, RangeLen(t, starts[g], last(g)))])

\* re.sub(r'\n{3,}', '\n\n', .) then re.sub(r'[ \t]+', ' ', .)
NormalizeRun(r) ==
    IF r.c = "n" /\ r.n >= 3 THEN Run("n", 2)
    ELSE IF r.c = "s" THEN Run("s", 1)
    ELSE r

Normalize(t) ==
    LET merged == Canon(t)
    IN  AsSeq([i \in 1..Len(merged) |-> NormalizeRun(merged[i])])

\* text.rfind('.') : 0-based index of the last period, -1 when there is none
RFindDot(t) ==
    IF \A i \in 1..Len(t) : t[i].c # "." THEN -1
    ELSE RangeLen(t, 1, CHOOSE i \in 1..Len(t) :
                            t[i].c = "." /\ \A j \in (i + 1)..Len(t) : t[j].c # ".") - 1

\* variant: _prepare_content without the search for the last period
_prepare_content_HardCut(raw_content) ==
    Take(Strip(Normalize(raw_content)), chunk_size)

\* ContentEnhancer._prepare_content
_prepare_content(raw_content) ==
    LET content == Strip(Normalize(raw_content))
        truncated == Take(content, chunk_size)
        last_period == RFindDot(truncated)
    IN  IF StrLen(content) > chunk_size
        THEN IF last_period * 10 > chunk_size * 8
             THEN Take(truncated, last_period + 1)
             ELSE truncated
        ELSE content

\* re.sub(r'\s+', ' ', .): every maximal whitespace group becomes one space
CollapseWs(t) ==
    LET kept == SortedIn({i \in 1..Len(t) :
                             ~IsWs(t[i]) \/ i = 1 \/ ~IsWs(t[i - 1])}, 1, Len(t))
    IN  AsSeq([g \in 1..Len(kept) |->
                  IF IsWs(t[kept[g]]) THEN Run("s", 1) ELSE t[kept[g]]])

\* ContentEnhancer._clean_llm_output: drop a leading label, collapse whitespace
_clean_llm_output(text) ==
    LET unlabelled == IF text # <<>> /\ Head(text).c = "L"
                      THEN LStrip(Tail(text)) ELSE text
    IN  Strip(CollapseWs(unlabelled))

\* text.split('\n'): the lines between the newlines; a run of k newlines
\* separates two lines by k - 1 empty ones
RECURSIVE SplitAt(_, _, _)
SplitAt(t, nl, start) ==
    IF nl = <<>> THEN <<SubSeq(t, start, Len(t))>>
    ELSE <<SubSeq(t, start, Head(nl) - 1)>>
             \o [i \in 1..(t[Head(nl)].n - 1) |-> <<>>]
             \o SplitAt(t, Tail(nl), Head(nl) + 1)

SplitLines(t) == SplitAt(t, SortedIn({i \in 1..Len(t) : t[i].c = "n"}, 1, Len(t)), 1)

\* the elements of a sequence that satisfy a test, in order
RECURSIVE SelectNonEmpty(_)
SelectNonEmpty(ts) ==
    IF ts = <<>> THEN <<>>
    ELSE IF Head(ts) # <<>> THEN <<Head(ts)>> \o SelectNonEmpty(Tail(ts))
    ELSE SelectNonEmpty(Tail(ts))

\* list[:k]
Prefix(xs, k) == SubSeq(xs, 1, Min(Len(xs), k))

\* ContentEnhancer._parse_numbered_list: the lines "<number> <point>"
NumberedPoint(line) ==
    LET l == Strip(line)
    IN  IF l # <<>> /\ Head(l).c = "N" THEN Strip(Tail(l)) ELSE <<>>

_parse_numbered_list(text) ==
    LET lines == SplitLines(Strip(text))
    IN  SelectNonEmpty([i \in 1..Len(lines) |-> NumberedPoint(lines[i])])

\* ContentEnhancer._parse_topic_list: lines of at most three words, one leading
\* bullet and the blanks after it removed (re.sub(r'^[-•*]\s*', '', line))
TopicOfLine(line) ==
    LET l == Strip(line)
        topic == IF l # <<>> /\ Head(l).c = "B"
                 THEN IF Head(l).n = 1 THEN LStrip(Tail(l))
                      ELSE <<Run("B", Head(l).n - 1)>> \o Tail(l)
                 ELSE l
    IN  IF topic # <<>> /\ WordCount(topic) <= MaxTopicWords THEN topic ELSE <<>>

_parse_topic_list(text) ==
    LET lines == SplitLines(Strip(text))
    IN  SelectNonEmpty([i \in 1..Len(lines) |-> TopicOfLine(lines[i])])

\* index of the first run of class c at or after position i, Len(t) + 1 if none
FindRun(t, c, i) ==
    IF \A j \in i..Len(t) : t[j].c # c THEN Len(t) + 1
    ELSE CHOOSE j \in i..Len(t) : t[j].c = c /\ \A k \in i..(j - 1) : t[k].c # c

\* ContentEnhancer._parse_qa_pairs: re.findall of
\*   Q\d+:\s*(.*?)\s*A\d+:\s*(.*?)(?=Q\d+:|$)
\* a match starts at a question marker, its question runs to the first answer
\* marker, its answer to the next question marker or the end of the text.
RECURSIVE QAMatches(_, _)
QAMatches(t, from) ==
    LET i == FindRun(t, "Q", from)
        j == FindRun(t, "A", i + 1)
        k == FindRun(t, "Q", j + 1)
    IN  IF i > Len(t) \/ j > Len(t) THEN <<>>
        ELSE <<[question |-> SubSeq(t, i + 1, j - 1),
                answer |-> SubSeq(t, j + 1, k - 1)]>> \o QAMatches(t, k)

RECURSIVE QAKeep(_)
QAKeep(ms) ==
    IF ms = <<>> THEN <<>>
    ELSE LET q == Strip(Head(ms).question)
             a == Strip(Head(ms).answer)
         IN  IF q # <<>> /\ a # <<>>
             THEN <<[q |-> IF EndsWithQ(q) THEN q ELSE q \o <<Run("?", 1)>>,
                     a |-> a]>> \o QAKeep(Tail(ms))
             ELSE QAKeep(Tail(ms))

_parse_qa_pairs(text) ==
    LET kept == QAKeep(QAMatches(text, 1))
    IN  [questions |-> AsSeq([i \in 1..Len(kept) |-> kept[i].q]),
         answers |-> AsSeq([i \in 1..Len(kept) |-> kept[i].a])]

(***************************************************************************)
(* content_enhancer.py: fallback builders                                  *)
(***************************************************************************)
\* '. '.join(content.split('. ')[:3]): the text before its third '. '
\* (a period run followed by a space run holds one separator)
FirstSentences(content) ==
    LET seps == SortedIn({i \in 1..(Len(content) - 1) :
                             content[i].c = "." /\ content[i + 1].c = "s"},
                         1, Len(content) - 1)
        third == seps[3]
    IN  IF Len(seps) < 3 THEN content
        ELSE SubSeq(content, 1, third - 1)
                 \o (IF content[third].n > 1
                     THEN <<Run(".", content[third].n - 1)>> ELSE <<>>)

\* ContentEnhancer._create_fallback_summary
_create_fallback_summary(content, title) ==
    Words(<<4, 8, 6, 1>>) \o title
        \o Words(<<1, 8, 9, 11, 3, 8>>) \o <<Run(".", 1), Run("s", 1)>>
        \o FirstSentences(content)
        \o <<Run(".", 1), Run("s", 1)>>
        \o Sentence(<<3, 8, 3, 4, 9, 3, 2, 5, 3, 8, 3, 11>>, ".")

\* ContentEnhancer._create_fallback_key_points
_create_fallback_key_points(content) ==
    << Words(<<8, 12, 9, 3, 8>>),
       Words(<<8>>) \o <<Run("s", 1)>> \o IntStr(StrLen(content))
                    \o <<Run("s", 1)>> \o Words(<<10, 2, 7>>),
       Words(<<5, 3, 8, 11, 3, 8>>),
       Words(<<10, 7, 9, 3, 8>>),
       Words(<<13, 11, 9, 3, 9>>) >>

\* ContentEnhancer._create_fallback_qa
_create_fallback_qa(content) ==
    [questions |-> << Sentence(<<4, 4, 2, 8, 2, 4>>, "?"),
                      Sentence(<<3, 4, 7, 4, 2, 7>>, "?"),
                      Sentence(<<2, 3, 8, 5, 3, 8>>, "?") >>,
     answers |-> << Sentence(<<4, 2, 1, 9, 8, 4, 3, 4, 8, 3, 10, 3, 11>>, "."),
                    Words(<<3, 8, 8>>) \o <<Run("s", 1)>> \o IntStr(StrLen(content))
                        \o <<Run("s", 1)>> \o Sentence(<<10, 2, 8, 7, 3, 11>>, "."),
                    Sentence(<<4, 3, 8, 3, 4, 12, 9, 3, 2, 5, 3, 8, 8, 3, 8>>, ".") >>]

\* ContentEnhancer._create_fallback_topics
_create_fallback_topics(content) ==
    << Words(<<8, 7>>), Words(<<4, 11>>), Words(<<3, 7>>), Words(<<8, 7>>) >>

\* the fixed lists the validators substitute
ValidatorKeyPoints == << Words(<<8, 9, 12>>), Words(<<7, 8, 9>>), Words(<<3, 11, 9>>) >>
ValidatorTopics == << Words(<<4, 7>>), Words(<<3, 11>>), Words(<<8, 8>>) >>
DocumentWord == Words(<<8>>)

(***************************************************************************)
(* workflow_events.py: EventValidator.validate_qa_quality                  *)
(***************************************************************************)
\* variant: the pair check without the answer-length floor
QAPairOk_NoAnswerFloor(q, a) ==
    /\ Strip(q) # <<>> /\ Strip(a) # <<>>
    /\ ~(StrLen(Strip(q)) < MinQuestionChars)
    /\ EndsWithQ(Strip(q))

QAPairOk(q, a) ==
    /\ Strip(q) # <<>> /\ Strip(a) # <<>>
    /\ ~(StrLen(Strip(q)) < MinQuestionChars \/ StrLen(Strip(a)) < MinAnswerChars)
    /\ EndsWithQ(Strip(q))

validate_qa_quality(questions, answers) ==
    /\ Len(questions) = Len(answers)
    /\ \A i \in 1..Len(questions) : QAPairOk(questions[i], answers[i])

(***************************************************************************)
(* content_enhancer.py: validators and quality score                       *)
(* A gathered result is [exc |-> BOOLEAN, val |-> value]; exc marks an     *)
(* exception object returned by gather(return_exceptions=True).            *)
(***************************************************************************)
StripAll(ts) == SelectNonEmpty([i \in 1..Len(ts) |-> Strip(ts[i])])

_validate_summary(summary, content) ==
    IF summary.exc THEN _create_fallback_summary(content, DocumentWord)
    ELSE IF StrLen(Strip(summary.val)) < MinSummaryChars
         THEN _create_fallback_summary(content, DocumentWord)
         ELSE Strip(summary.val)

_validate_key_points(key_points) ==
    IF key_points.exc THEN ValidatorKeyPoints
    ELSE IF Len(key_points.val) < MinKeyPoints THEN ValidatorKeyPoints
    ELSE StripAll(key_points.val)

_validate_qa_result(qa_result, content) ==
    IF qa_result.exc THEN _create_fallback_qa(content)
    ELSE IF ~validate_qa_quality(qa_result.val.questions, qa_result.val.answers)
         THEN _create_fallback_qa(content)
         ELSE qa_result.val

_validate_topics(topics) ==
    IF topics.exc THEN ValidatorTopics
    ELSE IF Len(topics.val) < MinTopics THEN ValidatorTopics
    ELSE StripAll(topics.val)

\* ContentEnhancer._calculate_quality_score, in hundredths
_calculate_quality_score(summary, key_points, questions, answers) ==
    LET s1 == IF StrLen(summary) >= 100 THEN 20 ELSE 0
        s2 == IF WordCount(summary) >= 50 THEN 20 ELSE 0
        k1 == IF Len(key_points) >= 5 THEN 15 ELSE 0
        k2 == IF \A i \in 1..Len(key_points) : StrLen(key_points[i]) >= 20
              THEN 15 ELSE 0
        q1 == IF Len(questions) >= 3 THEN 15 ELSE 0
        q2 == IF \A i \in 1..Len(answers) : StrLen(answers[i]) >= 30
              THEN 15 ELSE 0
    IN  Min(s1 + s2 + k1 + k2 + q1 + q2, 100)

(***************************************************************************)
(* content_enhancer.py: the completion client and the four sub-tasks       *)
(***************************************************************************)
TaskNames == {"summary", "key_points", "qa", "topics"}

\* what llm.achat can do for one call: raise, or answer with a text
Raises == [raise |-> TRUE, text |-> NoText]
Answers(text) == [raise |-> FALSE, text |-> text]

\* "Summary:\n" followed by sixty words / twelve words / three words
SummaryResponses ==
    { <<Run("L", 8), Run("n", 1)>> \o Repeat(LongSentence, 5),
      Repeat(ShortSentence, 4),
      ShortSentence }

\* one line of a numbered list: a point of 23 characters, a point of 8
\* characters, a line without a number
PointLines ==
    { <<Run("N", 2), Run("s", 1)>> \o Words(<<6, 7, 8>>) \o <<Run("n", 1)>>,
      <<Run("N", 2), Run("s", 1)>> \o Words(<<4, 3>>) \o <<Run("n", 1)>>,
      Words(<<6, 7, 8>>) \o <<Run("n", 1)>> }

KeyPointResponses == {Repeat(l, k) : l \in PointLines, k \in 0..MaxLines}

\* one line of a topic list: a bulleted topic of two words, a bulleted line of
\* four words, a bare topic of one word
TopicLines ==
    { <<Run("B", 1), Run("s", 1)>> \o Words(<<5, 6>>) \o <<Run("n", 1)>>,
      <<Run("B", 1), Run("s", 1)>> \o Words(<<3, 3, 3, 3>>) \o <<Run("n", 1)>>,
      Words(<<7>>) \o <<Run("n", 1)>> }

TopicResponses == {Repeat(l, k) : l \in TopicLines, k \in 0..MaxLines}

\* one "Qi: ... Ai: ..." pair: a question of 12 characters with its question
\* mark and an answer of 40; a question without question mark and an answer of
\* 25; a question with an answer of only 10 characters
QAPairTexts ==
    { <<Run("Q", 3), Run("s", 1)>> \o Sentence(<<4, 2, 3>>, "?")
          \o <<Run("n", 1), Run("A", 3), Run("s", 1)>>
          \o Sentence(<<5, 6, 4, 7, 3, 9>>, ".") \o <<Run("n", 2)>>,
      <<Run("Q", 3), Run("s", 1)>> \o Words(<<4, 2, 4>>)
          \o <<Run("n", 1), Run("A", 3), Run("s", 1)>>
          \o Sentence(<<5, 6, 4, 6>>, ".") \o <<Run("n", 2)>>,
      <<Run("Q", 3), Run("s", 1)>> \o Sentence(<<4, 2, 3>>, "?")
          \o <<Run("n", 1), Run("A", 3), Run("s", 1)>>
          \o Sentence(<<4, 4>>, ".") \o <<Run("n", 2)>> }

QAResponses == {Repeat(p, k) : p \in QAPairTexts, k \in 0..MaxPairs}

Outcomes(name) ==
    {Raises} \cup
    {Answers(t) : t \in CASE name = "summary" -> SummaryResponses
                          [] name = "key_points" -> KeyPointResponses
                          [] name = "qa" -> QAResponses
                          [] OTHER -> TopicResponses}

_generate_summary(content, title, o) ==
    IF o.raise THEN _create_fallback_summary(content, title)
    ELSE _clean_llm_output(Strip(o.text))

_generate_key_points(content, o) ==
    IF o.raise THEN _create_fallback_key_points(content)
    ELSE Prefix(_parse_numbered_list(o.text), max_key_points)

_generate_qa_pairs(content, o) ==
    IF o.raise THEN _create_fallback_qa(content)
    ELSE _parse_qa_pairs(o.text)

_extract_topics(content, o) ==
    IF o.raise THEN _create_fallback_topics(content)
    ELSE Prefix(_parse_topic_list(o.text), max_topics)

\* the value one sub-task returns to gather
TaskValue(name, content, title, o) ==
    CASE name = "summary" -> _generate_summary(content, title, o)
      [] name = "key_points" -> _generate_key_points(content, o)
      [] name = "qa" -> _generate_qa_pairs(content, o)
      [] OTHER -> _extract_topics(content, o)

NoQA == [questions |-> <<>>, answers |-> <<>>]

\* a sub-task: its state, the value it returned, and whether its completion
\* call raised
IdleTask(name) ==
    [st |-> "idle", raised |-> FALSE, val |-> IF name = "qa" THEN NoQA ELSE <<>>]

Gathered(task) == [exc |-> FALSE, val |-> task.val]

\* variant: a pending sub-task is left running when enhance_document is left
Settled_LeavesPending(tsk, name) ==
    [IdleTask(name) EXCEPT !.st = tsk.st, !.raised = tsk.raised]

\* a sub-task after enhance_document is left: a pending one is cancelled, and
\* the value of a finished one is dropped with the frame that held it
Settled(tsk, name) ==
    [IdleTask(name) EXCEPT !.st = IF tsk.st = "running" THEN "cancelled" ELSE tsk.st,
                           !.raised = tsk.raised]

(***************************************************************************)
(* content_enhancer.py: enhance_document                                   *)
(***************************************************************************)
\* variant: one sub-task that raised makes every validator substitute its
\* fallback
EnhancedContent_AllOrNothing(ts, content) ==
    LET failed == \E name \in TaskNames : ts[name].raised
        got(name) == [exc |-> failed, val |-> ts[name].val]
        summary == _validate_summary(got("summary"), content)
        key_points == _validate_key_points(got("key_points"))
        qa == _validate_qa_result(got("qa"), content)
        topics == _validate_topics(got("topics"))
    IN  [summary |-> summary,
         key_points |-> key_points,
         questions |-> qa.questions,
         answers |-> qa.answers,
         topics |-> topics,
         metadata |-> [enhancement_model |-> "gpt-4o",
                       content_length_processed |-> StrLen(content),
                       quality_score |-> _calculate_quality_score(
                           summary, key_points, qa.questions, qa.answers)]]

\* the result built from the four gathered values
EnhancedContent(ts, content) ==
    LET summary == _validate_summary(Gathered(ts["summary"]), content)
        key_points == _validate_key_points(Gathered(ts["key_points"]))
        qa == _validate_qa_result(Gathered(ts["qa"]), content)
        topics == _validate_topics(Gathered(ts["topics"]))
    IN  [summary |-> summary,
         key_points |-> key_points,
         questions |-> qa.questions,
         answers |-> qa.answers,
         topics |-> topics,
         metadata |-> [enhancement_model |-> "gpt-4o",
                       content_length_processed |-> StrLen(content),
                       quality_score |-> _calculate_quality_score(
                           summary, key_points, qa.questions, qa.answers)]]

\* ContentEnhancer._create_fallback_content
_create_fallback_content(document_event, error) ==
    LET content_preview == get_content_preview(document_event, PreviewChars)
    IN  [summary |-> _create_fallback_summary(content_preview, document_event.title),
         key_points |-> _create_fallback_key_points(content_preview),
         questions |-> << Sentence(<<4, 2, 4, 8, 5>>, "?"),
                          Sentence(<<4, 3, 3, 4, 6>>, "?"),
                          Sentence(<<3, 2, 3, 7, 10>>, "?") >>,
         answers |-> << Words(<<4, 8, 6, 1>>) \o document_event.title
                            \o Words(<<1, 8>>) \o <<Run("s", 1)>>
                            \o IntStr(content_size(document_event))
                            \o <<Run("s", 1)>> \o Sentence(<<10, 2, 7>>, "."),
                        Sentence(<<3, 8, 3, 4, 9, 3, 8, 3, 3, 11, 3, 8>>, "."),
                        Sentence(<<3, 7, 2, 10, 3, 5, 3, 11, 3, 8>>, ".") >>,
         topics |-> _create_fallback_topics(content_preview),
         metadata |-> [enhancement_model |-> "fallback",
                       processing_error |-> error,
                       content_length_processed |-> StrLen(content_preview),
                       quality_score |-> FallbackQuality]]

(***************************************************************************)
(* workflow_events.py: ContentEnhancedEvent, NotebookReadyEvent            *)
(***************************************************************************)
StripEach(ts) == AsSeq([i \in 1..Len(ts) |-> Strip(ts[i])])

\* variant: ContentEnhancedEvent.__init__ without the floor on the Q&A pairs
ContentEnhancedEventValid_NoPairFloor(r) ==
    /\ ~(r.summary = <<>> \/ StrLen(Strip(r.summary)) < MinSummaryChars)
    /\ Len(r.questions) = Len(r.answers)
    /\ ~(Len(r.key_points) < MinKeyPoints)

\* the checks of ContentEnhancedEvent.__init__
ContentEnhancedEventValid(r) ==
    /\ ~(r.summary = <<>> \/ StrLen(Strip(r.summary)) < MinSummaryChars)
    /\ Len(r.questions) = Len(r.answers)
    /\ ~(Len(r.questions) < MinQAPairs)
    /\ ~(Len(r.key_points) < MinKeyPoints)

ContentEnhancedEvent(original_event, r) ==
    [type |-> "ContentEnhancedEvent",
     original_event |-> original_event,
     summary |-> Strip(r.summary),
     key_points |-> StripEach(r.key_points),
     questions |-> StripEach(r.questions),
     answers |-> StripEach(r.answers),
     topics |-> StripEach(r.topics),
     enhancement_metadata |-> r.metadata]

\* create_content_enhanced_event: the event, or ValueError
create_content_enhanced_event(original_event, llm_results) ==
    IF ContentEnhancedEventValid(llm_results)
    THEN [ok |-> TRUE, event |-> ContentEnhancedEvent(original_event, llm_results),
          error |-> ""]
    ELSE [ok |-> FALSE, event |-> NoEvent, error |-> "Invalid LLM results format"]

\* ContentEnhancedEvent.formatted_qa: "**q**\n\na\n\n" per pair, stripped
RECURSIVE FormatQA(_, _)
FormatQA(questions, answers) ==
    IF questions = <<>> \/ answers = <<>> THEN <<>>
    ELSE <<Run("a", 2)>> \o Head(questions) \o <<Run("a", 2), Run("n", 2)>>
             \o Head(answers) \o <<Run("n", 2)>>
             \o FormatQA(Tail(questions), Tail(answers))

formatted_qa(ev) == Strip(FormatQA(ev.questions, ev.answers))

\* ContentEnhancedEvent.formatted_highlights: a marker and a space before each point
formatted_highlights(ev) ==
    AsSeq([i \in 1..Len(ev.key_points) |->
              <<Run("a", 1), Run("s", 1)>> \o ev.key_points[i]])

\* NotebookReadyEvent.__init__: the mind map must be substantial
NotebookReadyEventValid(mind_map_html) ==
    ~(mind_map_html.chars = 0 \/ mind_map_html.chars < MinMindMapChars)

NotebookReadyEvent(enhanced_event, notebook_content, mind_map_html, formatted_summary, fqa, fhighlights) ==
    [type |-> "NotebookReadyEvent",
     enhanced_event |-> enhanced_event,
     notebook_content |-> notebook_content,
     mind_map_html |-> mind_map_html,
     formatted_summary |-> formatted_summary,
     formatted_qa |-> fqa,
     formatted_highlights |-> fhighlights]

original_document(ev) == ev.enhanced_event.original_event

\* NotebookReadyEvent.full_metadata: the counts added to the enhancement metadata
full_metadata(ev) ==
    [enhancement |-> ev.enhanced_event.enhancement_metadata,
     total_processing_stages |-> 3,
     content_preserved |-> StrLen(original_document(ev).raw_content),
     summary_generated |-> StrLen(ev.formatted_summary),
     qa_pairs |-> Len(ev.enhanced_event.questions),
     key_points |-> Len(ev.enhanced_event.key_points),
     topics_identified |-> Len(ev.enhanced_event.topics)]

(***************************************************************************)
(* mind_map_generator.py                                                   *)
(***************************************************************************)
MindMapTemplateChars == 5262

NonBlank(ts) == Cardinality({i \in 1..Len(ts) : Strip(ts[i]) # <<>>})

\* what rendering the HTML can do: succeed, fail once (the fallback map is
\* rendered), fail in the fallback too (the exception leaves generate_mind_map)
MindMapOutcomes == {"ok", "fallback", "raise"}

\* MindMapGenerator.generate_mind_map: the HTML page, described by its graph;
\* chars is a lower bound of its length (the template and the title; the node
\* and edge JSON add to it)
generate_mind_map(title, topics, key_points, m) ==
    CASE m = "ok" ->
           [ok |-> TRUE,
            html |-> [nodes |-> 1 + NonBlank(topics) + NonBlank(key_points),
                      edges |-> NonBlank(topics) + NonBlank(key_points),
                      chars |-> MindMapTemplateChars + 2 * StrLen(title)]]
      [] m = "fallback" ->
           [ok |-> TRUE,
            html |-> [nodes |-> 1 + NonBlank(Prefix(topics, 6)),
                      edges |-> NonBlank(Prefix(topics, 6)),
                      chars |-> MindMapTemplateChars + 2 * StrLen(title)]]
      [] OTHER ->
           [ok |-> FALSE, html |-> [nodes |-> 0, edges |-> 0, chars |-> 0]]

(***************************************************************************)
(* enhanced_workflow_v2.py: the steps of EnhancedWorkflowV2                *)
(***************************************************************************)
NoResult == [status |-> "none"]

\* variant: process_document reporting its failures as recoverable, as the
\* later steps do
process_document_Recoverable(ev, d, p) ==
    LET docling_result == DoclingProcess(d, p)
        created == create_document_processed_event(docling_result, ev.file_path)
        error_result(msg) ==
            [status |-> "error",
             error_stage |-> "document_processing",
             error_message |-> msg,
             context |-> [file_path |-> ev.file_path],
             recoverable |-> TRUE]
    IN  IF ev.file_path = ""
        THEN StopEvent(error_result("No file_path provided in StartEvent"))
        ELSE IF ~docling_result.ok
        THEN StopEvent(error_result(docling_result.error))
        ELSE IF ~created.ok
        THEN StopEvent(error_result(created.error))
        ELSE created.event

\* process_document, given what the extractor does
process_document(ev, d, p) ==
    LET docling_result == DoclingProcess(d, p)
        created == create_document_processed_event(docling_result, ev.file_path)
        error_result(msg) ==
            [status |-> "error",
             error_stage |-> "document_processing",
             error_message |-> msg,
             context |-> [file_path |-> ev.file_path],
             recoverable |-> FALSE]
    IN  IF ev.file_path = ""
        THEN StopEvent(error_result("No file_path provided in StartEvent"))
        ELSE IF ~docling_result.ok
        THEN StopEvent(error_result(docling_result.error))
        ELSE IF ~created.ok
        THEN StopEvent(error_result(created.error))
        ELSE created.event

\* variant: enhance_content handing the document event back for another
\* attempt when the enhanced event cannot be built
enhance_content_Retry(ev, enhanced_content) ==
    LET created == create_content_enhanced_event(ev, enhanced_content)
    IN  IF created.ok THEN created.event ELSE ev

\* enhance_content, given the result enhance_document returned
enhance_content(ev, enhanced_content) ==
    LET created == create_content_enhanced_event(ev, enhanced_content)
    IN  IF created.ok THEN created.event
        ELSE StopEvent([status |-> "error",
                        error_stage |-> "content_enhancement",
                        error_message |-> created.error,
                        context |-> [document_title |-> ev.title,
                                     content_size |-> content_size(ev)],
                        recoverable |-> TRUE])

\* _create_notebook_structure: the document_info and the content cell
_create_notebook_structure(enhanced_event) ==
    LET original_doc == enhanced_event.original_event
    IN  [nbformat |-> 4,
         title |-> original_doc.title,
         content_size |-> content_size(original_doc),
         enhancement_quality |-> enhanced_event.enhancement_metadata.quality_score,
         cells |-> 2,
         content_cell_chars |->
             IF StrLen(original_doc.raw_content) > NotebookPreviewChars
             THEN NotebookPreviewChars + 3
             ELSE StrLen(original_doc.raw_content)]

_format_summary_for_display(summary) == Strip(summary)

\* "## Key Highlights\n\n" then "- {highlight}\n" per highlight, stripped
RECURSIVE HighlightLines(_)
HighlightLines(hs) ==
    IF hs = <<>> THEN <<>>
    ELSE <<Run("B", 1), Run("s", 1)>> \o Head(hs) \o <<Run("n", 1)>>
             \o HighlightLines(Tail(hs))

_format_highlights_for_display(highlights) ==
    IF highlights = <<>>
    THEN Words(<<2, 3, 10>>) \o <<Run("n", 2), Run("B", 1), Run("s", 1)>>
             \o Words(<<8, 9, 12>>)
    ELSE Strip(Words(<<2, 3, 10>>) \o <<Run("n", 2)>> \o HighlightLines(highlights))

\* variant: generate_notebook returns nothing when the mind map cannot be used
generate_notebook_Silent(ev, m) ==
    LET mm == generate_mind_map(ev.original_event.title, ev.topics, ev.key_points, m)
    IN  IF ~mm.ok \/ ~NotebookReadyEventValid(mm.html) THEN NoEvent
        ELSE NotebookReadyEvent(ev, _create_notebook_structure(ev), mm.html,
                                _format_summary_for_display(ev.summary),
                                formatted_qa(ev),
                                _format_highlights_for_display(formatted_highlights(ev)))

\* generate_notebook, given what rendering the mind map does
generate_notebook(ev, m) ==
    LET mm == generate_mind_map(ev.original_event.title, ev.topics, ev.key_points, m)
        error_result(msg) ==
            [status |-> "error",
             error_stage |-> "notebook_generation",
             error_message |-> msg,
             context |-> [document_title |-> ev.original_event.title,
                          topics_count |-> Len(ev.topics)],
             recoverable |-> TRUE]
    IN  IF ~mm.ok THEN StopEvent(error_result("mind map rendering failed"))
        ELSE IF ~NotebookReadyEventValid(mm.html)
        THEN StopEvent(error_result("mind_map_html must be substantial"))
        ELSE NotebookReadyEvent(ev, _create_notebook_structure(ev), mm.html,
                                _format_summary_for_display(ev.summary),
                                formatted_qa(ev),
                                _format_highlights_for_display(formatted_highlights(ev)))

\* finalize_workflow: the success result
finalize_workflow(ev) ==
    StopEvent([status |-> "success",
               document_title |-> original_document(ev).title,
               content_size |-> content_size(original_document(ev)),
               summary |-> ev.formatted_summary,
               q_and_a |-> ev.formatted_qa,
               bullet_points |-> ev.formatted_highlights,
               mind_map |-> ev.mind_map_html,
               md_content |-> original_document(ev).raw_content,
               full_content |-> original_document(ev).raw_content,
               notebook_content |-> ev.notebook_content,
               metadata |-> full_metadata(ev),
               processing_details |->
                   [total_stages |-> 4,
                    content_preserved |-> TRUE,
                    llm_enhanced |-> TRUE,
                    mind_map_generated |-> TRUE,
                    quality_score |->
                        ev.enhanced_event.enhancement_metadata.quality_score]])

\* run_enhanced_workflow_v2: the report of the asyncio.TimeoutError handler
TimeoutReport ==
    [status |-> "timeout",
     error |-> "Processing timed out - document may be too large or complex",
     summary |-> Sentence(<<10, 3, 11, 3, 2, 7>>, ".") \o <<Run("s", 1)>>
                     \o Sentence(<<6, 3, 4, 1, 7, 8>>, "."),
     q_and_a |-> <<Run("a", 2)>> \o Sentence(<<3, 3, 10, 7>>, "?")
                     \o <<Run("a", 2), Run("n", 2)>>
                     \o Sentence(<<3, 8, 3, 2, 4, 5, 2, 7>>, ".") \o <<Run("s", 1)>>
                     \o Sentence(<<3, 8, 2, 4, 7, 8>>, "."),
     bullet_points |-> Words(<<2, 7, 11>>) \o <<Run("n", 2)>>
                     \o HighlightLines(<<Words(<<7, 2, 5, 3>>), Words(<<11, 3, 7, 9>>)>>)
                     \o <<Run("B", 1), Run("s", 1)>> \o Words(<<8, 3, 5, 9>>)]

\* run_enhanced_workflow_v2: the report of the catch-all handler
FailedReport(msg) ==
    [status |-> "failed",
     error |-> msg,
     summary |-> Sentence(<<8, 10, 6, 3, 2, 1, 9, 5>>, ".") \o <<Run("s", 1)>>
                     \o Sentence(<<6, 3, 5, 2, 7, 7>>, "."),
     q_and_a |-> <<Run("a", 2)>> \o Sentence(<<4, 4, 5>>, "?")
                     \o <<Run("a", 2), Run("n", 2)>>
                     \o Sentence(<<1, 9, 5, 8, 6, 10>>, ".") \o <<Run("s", 1)>>
                     \o Sentence(<<3, 6, 3, 6, 3, 5, 3, 13>>, "."),
     bullet_points |-> Words(<<2, 5, 11>>) \o <<Run("n", 2)>>
                     \o HighlightLines(<<Words(<<7, 1, 6>>), Words(<<7, 3, 5, 2, 7, 7>>)>>)
                     \o <<Run("B", 1), Run("s", 1)>> \o Words(<<8, 5, 6, 3, 13>>)]

(***************************************************************************)
(* The run: run_enhanced_workflow_v2 drives one workflow.  The workflow    *)
(* runtime hands each emitted event to the step that accepts its type and  *)
(* ends the run at a StopEvent.                                            *)
(***************************************************************************)
\* MCPEnhancedWorkflowV2.__init__: the MCP state of a workflow; requested is
\* the enable_mcp argument of the runner
MCPOff ==
    [requested |-> FALSE, enable_mcp |-> FALSE, initialized |-> FALSE, tools |-> {}]

\* no PostgreSQLDocumentManager has been constructed
NoManager == [created |-> FALSE, embedding_model |-> FALSE, vector_store |-> FALSE]

\* _add_to_vector_store has not run its chunking loop
NoChunking == [ran |-> FALSE, content |-> NoText, chunks |-> <<>>]

\* a put_document call in which no collaborator fails
NoFault == [commit |-> "ok", embed |-> "none", chunks |-> "ok", add |-> "ok"]

\* put_document has not been called
NoPut ==
    [n |-> 0, id |-> "", content |-> NoText, summary |-> NoText, existing |-> FALSE,
     raised |-> FALSE, fault |-> NoFault, st |-> "none"]

\* query_index has not been called
NoQuery == [asked |-> FALSE]

NoSnippet == [called |-> FALSE]

\* run_async_task has not been called
NoCall ==
    [n |-> 0, st |-> "idle", loop_running |-> FALSE, progress_callback |-> FALSE,
     messages |-> <<>>]

\* no coroutine object exists
NoCoroutine == [behaviour |-> [kind |-> "none", value |-> ""], st |-> "none", starts |-> 0]

\* run_async_task has neither returned nor raised
NoOutcome == [kind |-> "none", value |-> ""]

\* the session keys a caller of run_workflow_async uses
SessionKeys == {"enhanced_workflow_results", "workflow_results"}

\* no result under a key (None)
NoStored == [status |-> "None"]

\* no result is stored under any key
NoSession == [key \in SessionKeys |-> NoStored]

\* the caller of no run_workflow_async call
NoCaller == [file_path |-> "", document_title |-> ""]

\* no run_workflow_async call was made; stored_by is the history of the
\* document named by the call that last stored under each key
NoRun == [n |-> 0, st |-> "idle", stored_by |-> [key \in SessionKeys |-> NoCaller]]

\* nothing was submitted to the executor
NoThreadTask == [st |-> "none", result |-> NoOutcome]

NotEnhanced ==
    [returned |-> FALSE, allRaised |-> FALSE,
     content |-> [summary |-> <<>>, key_points |-> <<>>, questions |-> <<>>,
                  answers |-> <<>>, topics |-> <<>>,
                  metadata |-> [enhancement_model |-> "none",
                                content_length_processed |-> 0,
                                quality_score |-> 0]]]

Returned(content, allRaised) ==
    [returned |-> TRUE, allRaised |-> allRaised, content |-> content]

Init ==
    /\ pc = "idle"
    /\ inflight = NoEvent
    /\ active = "none"
    /\ prepared = NoText
    /\ tasks = [name \in TaskNames |-> IdleTask(name)]
    /\ enhanced = NotEnhanced
    /\ entered = <<>>
    /\ extracted = [ok |-> FALSE, content |-> NoText, title |-> NoText]
    /\ extractAttempts = 0
    /\ result = NoResult
    /\ raisedOut = FALSE
    /\ document = NoEvent
    /\ mcp = MCPOff
    /\ mcpMemory = <<>>
    /\ manager = NoManager
    /\ documents = <<>>
    /\ chunkTable = <<>>
    /\ vectorStore = <<>>
    /\ chunked = NoChunking
    /\ lastPut = NoPut
    /\ clock = 0
    /\ issued = <<>>
    /\ lastQuery = NoQuery
    /\ lastSnippet = NoSnippet
    /\ call = NoCall
    /\ coroutine = NoCoroutine
    /\ loopTask = "none"
    /\ threadTask = NoThreadTask
    /\ active_tasks = {}
    /\ outcome = NoOutcome
    /\ session = NoSession
    /\ lastRun = NoRun

\* variant: the runner without its catch-all handler
RunnerPropagates(msg) ==
    /\ pc' = "done"
    /\ result' = result
    /\ raisedOut' = TRUE

\* run_enhanced_workflow_v2: the catch-all handler turns whatever was raised
\* into a report
RunnerCatches(msg) ==
    /\ pc' = "done"
    /\ result' = FailedReport(msg)
    /\ raisedOut' = FALSE

\* the steps of the workflow class
StepNames == {"process_document", "enhance_content", "generate_notebook", "finalize_workflow"}

\* variant: generate_notebook is also declared for the document event
Accepts_Shared(step) ==
    CASE step = "process_document" -> {"StartEvent"}
      [] step = "enhance_content" -> {"DocumentProcessedEvent"}
      [] step = "generate_notebook" -> {"DocumentProcessedEvent", "ContentEnhancedEvent"}
      [] OTHER -> {"NotebookReadyEvent"}

\* the event type in the signature of each step (ev: ...)
Accepts(step) ==
    CASE step = "process_document" -> {"StartEvent"}
      [] step = "enhance_content" -> {"DocumentProcessedEvent"}
      [] step = "generate_notebook" -> {"ContentEnhancedEvent"}
      [] OTHER -> {"NotebookReadyEvent"}

\* the event type each step is declared to return (-> ...)
Emits(step) ==
    CASE step = "process_document" -> "DocumentProcessedEvent"
      [] step = "enhance_content" -> "ContentEnhancedEvent"
      [] step = "generate_notebook" -> "NotebookReadyEvent"
      [] OTHER -> "StopEvent"

\* the steps the workflow runs for an event of this type
Dispatch(type) == {step \in StepNames : type \in Accepts(step)}

\* run_enhanced_workflow_v2 up to workflow.run: the constructor initialises the
\* services and raises when one of them cannot be created
RunStart ==
    /\ pc = "idle"
    /\ \E file_path \in FilePaths, servicesOk \in BOOLEAN :
         IF servicesOk
         THEN /\ pc' = "running"
              /\ inflight' = StartEvent(file_path)
              /\ UNCHANGED <<result, raisedOut>>
         ELSE /\ RunnerCatches("Service initialization failed")
              /\ UNCHANGED inflight
    /\ UNCHANGED <<active, prepared, tasks, enhanced, entered, extracted,
                   extractAttempts>>
    /\ UNCHANGED <<document, mcp, mcpMemory>>
    /\ UNCHANGED <<storeVars, queryVars, handlerVars>>

\* step 1
ProcessDocumentStep ==
    /\ pc = "running" /\ active = "none"
    /\ "process_document" \in Dispatch(inflight.type)
    /\ \E d \in DoclingOutcomes, p \in PdfOutcomes :
         /\ inflight' = process_document(inflight, d, p)
         /\ extracted' = IF inflight.file_path # "" /\ DoclingProcess(d, p).ok
                         THEN [ok |-> TRUE, content |-> DoclingProcess(d, p).content,
                               title |-> DoclingProcess(d, p).title]
                         ELSE extracted
         /\ extractAttempts' = IF inflight.file_path = "" THEN 0
                               ELSE DoclingAttempts(d)
    /\ entered' = Append(entered, "process_document")
    /\ UNCHANGED <<pc, active, prepared, tasks, enhanced, result, raisedOut>>
    /\ document' = IF inflight'.type = "DocumentProcessedEvent" THEN inflight'
                   ELSE document
    /\ UNCHANGED <<mcp, mcpMemory>>
    /\ UNCHANGED <<storeVars, queryVars, handlerVars>>

\* step 2 up to the await of gather: enhance_document prepares the prompt copy
\* and starts the four sub-tasks
EnhanceContentBegin ==
    /\ pc = "running" /\ active = "none"
    /\ "enhance_content" \in Dispatch(inflight.type)
    /\ active' = "enhance_content"
    /\ prepared' = _prepare_content(inflight.raw_content)
    /\ tasks' = [name \in TaskNames |-> [IdleTask(name) EXCEPT !.st = "running"]]
    /\ entered' = Append(entered, "enhance_content")
    /\ UNCHANGED <<pc, inflight, enhanced, extracted, extractAttempts, result,
                   raisedOut>>
    /\ UNCHANGED <<document, mcp, mcpMemory>>
    /\ UNCHANGED <<storeVars, queryVars, handlerVars>>

\* one sub-task finishes: the completion client answered or raised
TaskComplete(name) ==
    /\ pc = "running" /\ active = "enhance_content"
    /\ tasks[name].st = "running"
    /\ \E o \in Outcomes(name) :
         tasks' = [tasks EXCEPT ![name] =
                      [st |-> "done", raised |-> o.raise,
                       val |-> TaskValue(name, prepared, inflight.title, o)]]
    /\ UNCHANGED <<pc, inflight, active, prepared, enhanced, entered, extracted,
                   extractAttempts, result, raisedOut>>
    /\ UNCHANGED <<document, mcp, mcpMemory>>
    /\ UNCHANGED <<storeVars, queryVars, handlerVars>>

\* gather returned within the timeout: validate, score, build the event
EnhanceContentGather ==
    /\ pc = "running" /\ active = "enhance_content"
    /\ \A name \in TaskNames : tasks[name].st = "done"
    /\ enhanced' = Returned(EnhancedContent(tasks, prepared),
                            \A name \in TaskNames : tasks[name].raised)
    /\ inflight' = enhance_content(inflight, enhanced'.content)
    /\ tasks' = [name \in TaskNames |-> Settled(tasks[name], name)]
    /\ active' = "none"
    /\ UNCHANGED <<pc, prepared, entered, extracted, extractAttempts,
                   result, raisedOut>>
    /\ UNCHANGED <<document, mcp, mcpMemory>>
    /\ UNCHANGED <<storeVars, queryVars, handlerVars>>

\* variant: on the timeout only the pending sub-tasks get their fallback, the
\* finished ones keep what they returned
EnhanceContentTimeout_KeepFinished ==
    /\ pc = "running" /\ active = "enhance_content"
    /\ \E name \in TaskNames : tasks[name].st = "running"
    /\ tasks' = [name \in TaskNames |-> Settled(tasks[name], name)]
    /\ enhanced' = Returned(
           EnhancedContent(
               [name \in TaskNames |->
                   IF tasks[name].st = "done" THEN tasks[name]
                   ELSE [st |-> "done", raised |-> TRUE,
                         val |-> TaskValue(name, prepared, inflight.title, Raises)]],
               prepared),
           FALSE)
    /\ inflight' = enhance_content(inflight, enhanced'.content)
    /\ active' = "none"
    /\ UNCHANGED <<pc, prepared, entered, extracted, extractAttempts,
                   result, raisedOut>>
    /\ UNCHANGED <<document, mcp, mcpMemory>>
    /\ UNCHANGED <<storeVars, queryVars, handlerVars>>

\* wait_for timed out: the pending sub-tasks are cancelled and the whole
\* result is the fallback content
EnhanceContentTimeout ==
    /\ pc = "running" /\ active = "enhance_content"
    /\ \E name \in TaskNames : tasks[name].st = "running"
    /\ tasks' = [name \in TaskNames |-> Settled(tasks[name], name)]
    /\ enhanced' = Returned(_create_fallback_content(inflight,
                                "Enhancement service unavailable"), FALSE)
    /\ inflight' = enhance_content(inflight, enhanced'.content)
    /\ active' = "none"
    /\ UNCHANGED <<pc, prepared, entered, extracted, extractAttempts,
                   result, raisedOut>>
    /\ UNCHANGED <<document, mcp, mcpMemory>>
    /\ UNCHANGED <<storeVars, queryVars, handlerVars>>

\* step 3
GenerateNotebookStep ==
    /\ pc = "running" /\ active = "none"
    /\ "generate_notebook" \in Dispatch(inflight.type)
    /\ \E m \in MindMapOutcomes : inflight' = generate_notebook(inflight, m)
    /\ entered' = Append(entered, "generate_notebook")
    /\ UNCHANGED <<pc, active, prepared, tasks, enhanced, extracted,
                   extractAttempts, result, raisedOut>>
    /\ UNCHANGED <<document, mcp, mcpMemory>>
    /\ UNCHANGED <<storeVars, queryVars, handlerVars>>

\* step 4
FinalizeWorkflowStep ==
    /\ pc = "running" /\ active = "none"
    /\ "finalize_workflow" \in Dispatch(inflight.type)
    /\ inflight' = finalize_workflow(inflight)
    /\ entered' = Append(entered, "finalize_workflow")
    /\ UNCHANGED <<pc, active, prepared, tasks, enhanced, extracted,
                   extractAttempts, result, raisedOut>>
    /\ UNCHANGED <<document, mcp, mcpMemory>>
    /\ UNCHANGED <<storeVars, queryVars, handlerVars>>

\* workflow.run returns the result of the StopEvent; the runner returns it
RunReturn ==
    /\ pc = "running" /\ active = "none"
    /\ inflight.type = "StopEvent"
    /\ pc' = "done"
    /\ result' = inflight.result
    /\ UNCHANGED <<inflight, active, prepared, tasks, enhanced, entered,
                   extracted, extractAttempts, raisedOut>>
    /\ UNCHANGED <<document, mcp, mcpMemory>>
    /\ UNCHANGED <<storeVars, queryVars, handlerVars>>

\* the workflow timeout (300 s) expires while the run is between or inside
\* steps: workflow.run raises; the runtime's timeout error is caught by one of
\* the two handlers of the runner, depending on its class
WorkflowTimeout ==
    /\ pc = "running"
    /\ inflight.type \in {"DocumentProcessedEvent", "ContentEnhancedEvent",
                          "NotebookReadyEvent"}
    /\ \E handler \in {"asyncio.TimeoutError", "Exception"} :
         IF handler = "asyncio.TimeoutError"
         THEN /\ pc' = "done"
              /\ result' = TimeoutReport
              /\ raisedOut' = FALSE
         ELSE RunnerCatches("Operation timed out")
    /\ active' = "none"
    /\ tasks' = [name \in TaskNames |-> Settled(tasks[name], name)]
    /\ UNCHANGED <<inflight, prepared, enhanced, entered, extracted,
                   extractAttempts>>
    /\ UNCHANGED <<document, mcp, mcpMemory>>
    /\ UNCHANGED <<storeVars, queryVars, handlerVars>>

Next ==
    \/ RunStart
    \/ RunReturn
    \/ WorkflowTimeout
    \/ ProcessDocumentStep
    \/ EnhanceContentBegin
    \/ \E name \in TaskNames : TaskComplete(name)
    \/ EnhanceContentGather
    \/ EnhanceContentTimeout
    \/ GenerateNotebookStep
    \/ FinalizeWorkflowStep

Spec == Init /\ [][Next]_vars

\* the workflow under its scheduler: the event loop runs a step for the event
\* in flight, every awaited call returns or raises, and wait_for and the
\* workflow timeout fire when their time is up, so a step that can be taken
\* is taken
SpecLive == Spec /\ WF_vars(Next)


(***************************************************************************)
(* mcp_enhanced_workflow_v2.py: MCPEnhancedWorkflowV2                      *)
(* Every step calls the step of EnhancedWorkflowV2 and then, when MCP is   *)
(* enabled and initialised, adds what the MCP servers answer.  Each MCP    *)
(* helper catches its own exceptions.                                      *)
(***************************************************************************)
MemoryChars == 5000
ObservationChars == 1000
MaxSimilarShown == 3
MaxServersShown == 3
MaxTopicsSearched == 3
MaxNamesPerSearch == 2
MaxSimilar == 5

MCPTools == {"filesystem", "memory", "postgres"}

MCPCallOutcomes == {"ok", "raise"}

\* _initialize_mcp_connections: it finds these tool sets, or it fails: before
\* the tools were read (initialize or get_tool_capabilities raises), or after
\* (health_check raises or its answer lacks a key)
MCPConnections ==
    {[ok |-> FALSE, tools |-> {}], [ok |-> FALSE, tools |-> MCPTools],
     [ok |-> TRUE, tools |-> {}], [ok |-> TRUE, tools |-> MCPTools]}

\* what mcp_proxy.health_check gives: it raises; the answer of MCPToolProxy,
\* whose "servers" is a dict keyed by server name; an answer whose "servers"
\* is a list of named servers with a status
HealthOutcomes ==
    {[kind |-> "raise", overall_status |-> NoText, total_tools |-> 0, servers |-> <<>>],
     [kind |-> "dict", overall_status |-> Words(<<7>>), total_tools |-> 5,
      servers |-> <<>>],
     [kind |-> "list", overall_status |-> Words(<<7>>), total_tools |-> 5,
      servers |-> <<[name |-> Words(<<10>>), status |-> "healthy"],
                    [name |-> Words(<<6>>), status |-> "unhealthy"]>>],
     [kind |-> "list", overall_status |-> Words(<<8>>), total_tools |-> 11,
      servers |-> <<[name |-> Words(<<10>>), status |-> "healthy"],
                    [name |-> Words(<<6>>), status |-> "unhealthy",
                     error |-> Words(<<7>>)]>>]}

\* names the memory server returns for a search
SimilarDocuments == {<<>>, <<UntitledDocument, PyPDF2Title>>}

MCPActive(m) == m.enable_mcp /\ m.initialized

_initialize_mcp_connections(m, c) ==
    IF ~m.enable_mcp \/ m.initialized THEN m
    ELSE IF c.ok THEN [m EXCEPT !.initialized = TRUE, !.tools = c.tools]
    ELSE [m EXCEPT !.enable_mcp = FALSE, !.tools = c.tools]

\* _get_mcp_file_metadata: {"mcp_file_metadata": {...}}, empty when the
\* filesystem server is missing or the call raises
_get_mcp_file_metadata(m, o) ==
    IF "filesystem" \in m.tools /\ o = "ok" THEN "file_accessible" ELSE "empty"

\* _store_in_mcp_memory: the entity holds the first 1000 characters of the
\* text it is given
_store_in_mcp_memory(memory, title, content, o) ==
    IF o = "ok"
    THEN Append(memory, [name |-> title,
                         observation |-> Take(content, ObservationChars)])
    ELSE memory

\* variant: the override without its try/except, a memory store that raises
\* ends the step with an error result
MCP_process_document_Unguarded(out, m, memory, o1, o2) ==
    IF MCPActive(m) /\ out.type = "DocumentProcessedEvent"
    THEN IF "memory" \in m.tools /\ o2 = "raise"
         THEN [event |-> StopEvent([status |-> "error",
                                    error_stage |-> "mcp_memory",
                                    error_message |-> "MCP enhancement failed",
                                    context |-> [file_path |-> ""],
                                    recoverable |-> FALSE]),
               memory |-> memory]
         ELSE [event |-> out @@ [mcp_file_metadata |-> _get_mcp_file_metadata(m, o1)],
               memory |-> IF "memory" \in m.tools
                          THEN _store_in_mcp_memory(memory, out.title,
                                                    Take(out.raw_content, MemoryChars), o2)
                          ELSE memory]
    ELSE [event |-> out, memory |-> memory]

\* the part of process_document after super().process_document: the event it
\* returns and the memory of the MCP server
MCP_process_document(out, m, memory, o1, o2) ==
    IF MCPActive(m) /\ out.type = "DocumentProcessedEvent"
    THEN [event |-> out @@ [mcp_file_metadata |-> _get_mcp_file_metadata(m, o1)],
          memory |-> IF "memory" \in m.tools
                     THEN _store_in_mcp_memory(memory, out.title,
                                               Take(out.raw_content, MemoryChars), o2)
                     ELSE memory]
    ELSE [event |-> out, memory |-> memory]

\* the sequences that list every element of S once: list(set(...)) gives one
\* of them, which one depends on the hash seed of the process
Orderings(S) ==
    {AsSeq(f) : f \in {g \in [1..Cardinality(S) -> S] :
                          \A i, j \in 1..Cardinality(S) : g[i] = g[j] => i = j}}

\* the names of k searches one after the other, as similar.extend collects them
RECURSIVE Collected(_, _)
Collected(names, k) == IF k <= 0 THEN <<>> ELSE names \o Collected(names, k - 1)

\* _find_similar_documents: what it can return when every search of a topic
\* (the first three topics) answers found, of which the first two names are
\* taken.  failAt = 0: no search raises, and the result is the distinct names
\* in some order, at most five.  failAt = k: the k-th search raises, the
\* de-duplication is skipped and the result is the names the searches before
\* it gave, duplicates included, at most five
_find_similar_documents(found, topics, failAt) ==
    LET searched == Len(Prefix(topics, MaxTopicsSearched))
        taken == Prefix(found, MaxNamesPerSearch)
    IN  IF failAt \in 1..searched
        THEN {Prefix(Collected(taken, failAt - 1), MaxSimilar)}
        ELSE IF searched = 0 THEN {<<>>}
        ELSE {Prefix(similar, MaxSimilar) :
                  similar \in Orderings({taken[i] : i \in 1..Len(taken)})}

\* _get_database_insights
_get_database_insights(o) == IF o = "ok" THEN "total_documents" ELSE "empty"

\* variant: the enhanced event keeps only the copy of the text that was sent
\* to the memory server
MCP_enhance_content_Shortens(out, m, similar_docs, o) ==
    IF MCPActive(m) /\ out.type = "ContentEnhancedEvent"
    THEN [out EXCEPT !.original_event.raw_content = Take(@, MemoryChars)]
    ELSE out

\* the part of enhance_content after super().enhance_content; similar_docs
\* is what _find_similar_documents returned
MCP_enhance_content(out, m, similar_docs, o) ==
    IF MCPActive(m) /\ out.type = "ContentEnhancedEvent"
    THEN LET md1 == IF "memory" \in m.tools
                    THEN out.enhancement_metadata
                             @@ [similar_documents |-> similar_docs]
                    ELSE out.enhancement_metadata
             md2 == IF "postgres" \in m.tools
                    THEN md1 @@ [db_insights |-> _get_database_insights(o)]
                    ELSE md1
         IN  [out EXCEPT !.enhancement_metadata = md2]
    ELSE out

\* one line of the status summary for a server: "- **name**: <mark> Connected"
\* or "- **name**: <mark> " followed by server.get('error', 'Disconnected')
ServerLine(server) ==
    <<Run("B", 1), Run("s", 1)>>
      \o Words(<<StrLen(server.name) + 5, 1>>) \o <<Run("s", 1)>>
      \o (IF server.status = "healthy" THEN Words(<<9>>)
          ELSE IF "error" \in DOMAIN server THEN server.error
          ELSE Words(<<12>>))

\* the lines of the first three servers, each after a line break
RECURSIVE ServerLines(_)
ServerLines(servers) ==
    IF servers = <<>> THEN <<>>
    ELSE <<Run("n", 1)>> \o ServerLine(Head(servers)) \o ServerLines(Tail(servers))

\* _get_mcp_status_summary: three status lines and a line for each of the
\* first three servers; "MCP status unavailable" when health_check raises or
\* when health['servers'][:3] raises because "servers" is a dict
_get_mcp_status_summary(h) ==
    IF h.kind = "list"
    THEN <<Run("B", 1), Run("s", 1)>> \o Words(<<11>>) \o <<Run("s", 1)>>
          \o h.overall_status \o <<Run("n", 1)>>
          \o <<Run("B", 1), Run("s", 1)>>
          \o Words(<<8, 10, Digits(Len(h.servers))>>) \o <<Run("n", 1)>>
          \o <<Run("B", 1), Run("s", 1)>> \o Words(<<11, 8, Digits(h.total_tools)>>)
          \o ServerLines(Prefix(h.servers, MaxServersShown))
    ELSE Words(<<3, 6, 11>>)

\* the part of generate_notebook after super().generate_notebook
MCP_generate_notebook(out, ev, m, h) ==
    IF MCPActive(m) /\ out.type = "NotebookReadyEvent"
    THEN LET similar_docs ==
                 IF "similar_documents" \in DOMAIN ev.enhancement_metadata
                 THEN ev.enhancement_metadata.similar_documents ELSE <<>>
         IN  [out EXCEPT
                !.formatted_summary =
                    @ \o <<Run("n", 2)>> \o Words(<<2, 3, 11, 6>>) \o <<Run("n", 2)>>
                      \o _get_mcp_status_summary(h),
                !.formatted_highlights =
                    IF similar_docs = <<>> THEN @
                    ELSE @ \o <<Run("n", 2)>> \o Words(<<2, 7, 9, 5>>) \o <<Run("n", 2)>>
                           \o HighlightLines(Prefix(similar_docs, MaxSimilarShown))]
    ELSE out

\* get_mcp_status, as the runner adds it to the result
get_mcp_status(m, o) ==
    IF ~m.initialized
    THEN [status |-> "not_initialized", enabled |-> m.enable_mcp,
          message |-> "MCP integration has not been initialized"]
    ELSE IF o = "ok"
    THEN [status |-> "active", enabled |-> m.enable_mcp, initialized |-> m.initialized]
    ELSE [status |-> "error", enabled |-> m.enable_mcp, error |-> "health check failed"]

\* the completions the MCP runs are checked with: a good answer for each
\* prompt, and for the Q/A prompt also an exception and a single pair
GoodResponses ==
    [name \in TaskNames |->
        Answers(CASE name = "summary" ->
                         CHOOSE t \in SummaryResponses : Head(t).c = "L"
                  [] name = "key_points" ->
                         Repeat(CHOOSE l \in PointLines :
                                    Head(l).c = "N" /\ StrLen(l) > 20, MaxLines)
                  [] name = "qa" ->
                         Repeat(CHOOSE q \in QAPairTexts :
                                    \A r \in QAPairTexts : StrLen(q) >= StrLen(r),
                                MaxPairs)
                  [] OTHER ->
                         Repeat(CHOOSE l \in TopicLines :
                                    Head(l).c = "B" /\ WordCount(l) = 3, MaxLines))]

MCPTaskOutcomes(name) ==
    {GoodResponses[name]} \cup
    (IF name = "qa"
     THEN {Raises, Answers(CHOOSE q \in QAPairTexts :
                               \A r \in QAPairTexts : StrLen(q) >= StrLen(r))}
     ELSE {})

\* run_mcp_enhanced_workflow_v2 up to workflow.run
MCPRunStart ==
    /\ pc = "idle"
    /\ \E file_path \in FilePaths, servicesOk \in BOOLEAN,
          requested \in BOOLEAN, configFound \in BOOLEAN :
         IF servicesOk
         THEN /\ pc' = "running"
              /\ inflight' = StartEvent(file_path)
              /\ mcp' = [MCPOff EXCEPT !.requested = requested,
                                       !.enable_mcp = requested /\ configFound]
              /\ UNCHANGED <<result, raisedOut>>
         ELSE /\ pc' = "done"
              /\ result' = FailedReport("Service initialization failed")
                              @@ [mcp_status |-> [status |-> "error",
                                                  enabled |-> requested,
                                                  error |-> "Service initialization failed"]]
              /\ raisedOut' = FALSE
              /\ mcp' = [MCPOff EXCEPT !.requested = requested]
              /\ UNCHANGED inflight
    /\ UNCHANGED <<active, prepared, tasks, enhanced, entered, extracted,
                   extractAttempts, document, mcpMemory>>
    /\ UNCHANGED <<storeVars, queryVars, handlerVars>>

\* MCPEnhancedWorkflowV2.process_document
MCPProcessDocumentStep ==
    /\ pc = "running" /\ active = "none"
    /\ "process_document" \in Dispatch(inflight.type)
    /\ mcp.requested \/ mcp = MCPOff
    /\ \E c \in MCPConnections, d \in DoclingOutcomes, p \in PdfOutcomes,
          o1 \in MCPCallOutcomes, o2 \in MCPCallOutcomes :
         LET m == _initialize_mcp_connections(mcp, c)
             r == MCP_process_document(process_document(inflight, d, p), m,
                                       mcpMemory, o1, o2)
         IN  /\ mcp' = m
             /\ inflight' = r.event
             /\ mcpMemory' = r.memory
             /\ extracted' = IF inflight.file_path # "" /\ DoclingProcess(d, p).ok
                             THEN [ok |-> TRUE,
                                   content |-> DoclingProcess(d, p).content,
                                   title |-> DoclingProcess(d, p).title]
                             ELSE extracted
             /\ extractAttempts' = IF inflight.file_path = "" THEN 0
                                   ELSE DoclingAttempts(d)
    /\ document' = IF inflight'.type = "DocumentProcessedEvent" THEN inflight'
                   ELSE document
    /\ entered' = Append(entered, "process_document")
    /\ UNCHANGED <<pc, active, prepared, tasks, enhanced, result, raisedOut>>
    /\ UNCHANGED <<storeVars, queryVars, handlerVars>>

\* one sub-task of the gather finishes in a run of the MCP workflow
MCPTaskComplete(name) ==
    /\ pc = "running" /\ active = "enhance_content"
    /\ tasks[name].st = "running"
    /\ \E o \in MCPTaskOutcomes(name) :
         tasks' = [tasks EXCEPT ![name] =
                      [st |-> "done", raised |-> o.raise,
                       val |-> TaskValue(name, prepared, inflight.title, o)]]
    /\ UNCHANGED <<pc, inflight, active, prepared, enhanced, entered, extracted,
                   extractAttempts, result, raisedOut>>
    /\ UNCHANGED <<document, mcp, mcpMemory>>
    /\ UNCHANGED <<storeVars, queryVars, handlerVars>>

\* what MCPEnhancedWorkflowV2.enhance_content returns once enhance_document
\* has returned enhanced_content
MCPEnhanceContentReturn(enhanced_content) ==
    LET out == enhance_content(inflight, enhanced_content)
    IN  \E found \in SimilarDocuments, failAt \in 0..MaxTopicsSearched,
           o2 \in MCPCallOutcomes :
          \E similar_docs \in
                 _find_similar_documents(found,
                     IF out.type = "ContentEnhancedEvent" THEN out.topics ELSE <<>>,
                     failAt) :
             inflight' = MCP_enhance_content(out, mcp, similar_docs, o2)

\* MCPEnhancedWorkflowV2.enhance_content: the gather of super().enhance_content
\* returned within the timeout, then the MCP calls
MCPEnhanceContentGather ==
    /\ pc = "running" /\ active = "enhance_content"
    /\ \A name \in TaskNames : tasks[name].st = "done"
    /\ enhanced' = Returned(EnhancedContent(tasks, prepared),
                            \A name \in TaskNames : tasks[name].raised)
    /\ MCPEnhanceContentReturn(enhanced'.content)
    /\ tasks' = [name \in TaskNames |-> Settled(tasks[name], name)]
    /\ active' = "none"
    /\ UNCHANGED <<pc, prepared, entered, extracted, extractAttempts,
                   result, raisedOut, document, mcp, mcpMemory>>
    /\ UNCHANGED <<storeVars, queryVars, handlerVars>>

\* MCPEnhancedWorkflowV2.enhance_content: wait_for timed out in
\* super().enhance_content, then the MCP calls
MCPEnhanceContentTimeout ==
    /\ pc = "running" /\ active = "enhance_content"
    /\ \E name \in TaskNames : tasks[name].st = "running"
    /\ tasks' = [name \in TaskNames |-> Settled(tasks[name], name)]
    /\ enhanced' = Returned(_create_fallback_content(inflight,
                                "Enhancement service unavailable"), FALSE)
    /\ MCPEnhanceContentReturn(enhanced'.content)
    /\ active' = "none"
    /\ UNCHANGED <<pc, prepared, entered, extracted, extractAttempts,
                   result, raisedOut, document, mcp, mcpMemory>>
    /\ UNCHANGED <<storeVars, queryVars, handlerVars>>

\* MCPEnhancedWorkflowV2.generate_notebook
MCPGenerateNotebookStep ==
    /\ pc = "running" /\ active = "none"
    /\ "generate_notebook" \in Dispatch(inflight.type)
    /\ \E m \in MindMapOutcomes, h \in HealthOutcomes :
         inflight' = MCP_generate_notebook(generate_notebook(inflight, m),
                                           inflight, mcp, h)
    /\ entered' = Append(entered, "generate_notebook")
    /\ UNCHANGED <<pc, active, prepared, tasks, enhanced, extracted,
                   extractAttempts, result, raisedOut, document, mcp, mcpMemory>>
    /\ UNCHANGED <<storeVars, queryVars, handlerVars>>

\* run_mcp_enhanced_workflow_v2: workflow.run returned; the MCP status is added
\* to the result when MCP was asked for
MCPRunReturn ==
    /\ pc = "running" /\ active = "none"
    /\ inflight.type = "StopEvent"
    /\ pc' = "done"
    /\ \E o \in MCPCallOutcomes :
         result' = IF mcp.requested
                   THEN inflight.result @@ [mcp_status |-> get_mcp_status(mcp, o)]
                   ELSE inflight.result
    /\ UNCHANGED <<inflight, active, prepared, tasks, enhanced, entered,
                   extracted, extractAttempts, raisedOut, document, mcp, mcpMemory>>
    /\ UNCHANGED <<storeVars, queryVars, handlerVars>>

\* run_mcp_enhanced_workflow_v2: the workflow timeout expires between or
\* inside steps; the pending sub-tasks of a gather are cancelled
MCPWorkflowTimeout ==
    /\ pc = "running"
    /\ inflight.type \in {"DocumentProcessedEvent", "ContentEnhancedEvent",
                          "NotebookReadyEvent"}
    /\ pc' = "done"
    /\ raisedOut' = FALSE
    /\ \E handler \in {"asyncio.TimeoutError", "Exception"} :
         result' = IF handler = "asyncio.TimeoutError"
                   THEN TimeoutReport
                            @@ [mcp_status |-> [status |-> "timeout",
                                                enabled |-> mcp.requested]]
                   ELSE FailedReport("Operation timed out")
                            @@ [mcp_status |-> [status |-> "error",
                                                enabled |-> mcp.requested,
                                                error |-> "Operation timed out"]]
    /\ active' = "none"
    /\ tasks' = [name \in TaskNames |-> Settled(tasks[name], name)]
    /\ UNCHANGED <<inflight, prepared, enhanced, entered,
                   extracted, extractAttempts, document, mcp, mcpMemory>>
    /\ UNCHANGED <<storeVars, queryVars, handlerVars>>

MCPNext ==
    \/ MCPRunStart
    \/ MCPProcessDocumentStep
    \/ EnhanceContentBegin
    \/ \E name \in TaskNames : MCPTaskComplete(name)
    \/ MCPEnhanceContentGather
    \/ MCPEnhanceContentTimeout
    \/ MCPGenerateNotebookStep
    \/ FinalizeWorkflowStep
    \/ MCPRunReturn
    \/ MCPWorkflowTimeout

SpecMCP == Init /\ [][MCPNext]_vars

(***************************************************************************)
(* postgres_manager.py: PostgreSQLDocumentManager                          *)
(***************************************************************************)
MaxPuts == 2         \* put_document calls in one behaviour

max_chunk_size == 3000
manager_chunk_size == 512
manager_chunk_overlap == 50
CharsPerWord == 4

\* the indexes at which a word of text.split() starts
WordStarts(t) == {i \in 1..Len(t) : ~IsWs(t[i]) /\ (i = 1 \/ IsWs(t[i - 1]))}

\* the last run of the word that starts at run i
WordEnd(t, i) == CHOOSE j \in i..Len(t) : j = Len(t) \/ IsWs(t[j + 1])

\* text.split(): the maximal groups of non-whitespace characters
Split(t) ==
    LET st == SortedIn(WordStarts(t), 1, Len(t))
    IN  AsSeq([k \in 1..Len(st) |-> SubSeq(t, st[k], WordEnd(t, st[k]))])

\* ' '.join(ws[i..j])
RECURSIVE JoinRange(_, _, _)
JoinRange(ws, i, j) ==
    IF i > j THEN <<>>
    ELSE IF i = j THEN ws[i]
    ELSE JoinRange(ws, i, (i + j) \div 2) \o <<Run("s", 1)>>
            \o JoinRange(ws, (i + j) \div 2 + 1, j)

\* ' '.join(ws)
Join(ws) == JoinRange(ws, 1, Len(ws))

\* current_size after the words i..j were appended: len(word) + 1 for each
RECURSIVE SizeRange(_, _, _)
SizeRange(ws, i, j) ==
    IF i > j THEN 0
    ELSE IF i = j THEN StrLen(ws[i]) + 1
    ELSE SizeRange(ws, i, (i + j) \div 2) + SizeRange(ws, (i + j) \div 2 + 1, j)

\* the chunking loop from word i on: a chunk is closed at the first word with
\* which current_size reaches max_chunk_size; the remaining words make the
\* last chunk
RECURSIVE ChunksFrom(_, _)
ChunksFrom(ws, i) ==
    IF i > Len(ws) THEN <<>>
    ELSE LET j == CHOOSE j \in i..Len(ws) :
                      /\ SizeRange(ws, i, j) >= max_chunk_size \/ j = Len(ws)
                      /\ \A k \in i..(j - 1) : SizeRange(ws, i, k) < max_chunk_size
         IN  <<Join(SubSeq(ws, i, j))>> \o ChunksFrom(ws, j + 1)

\* variant: the words left after the last full chunk are not added
content_chunks_DropsRest(content) ==
    LET ws == Split(content)
        cs == ChunksFrom(ws, 1)
    IN  IF cs # <<>> /\ StrLen(cs[Len(cs)]) + 1 < max_chunk_size
        THEN SubSeq(cs, 1, Len(cs) - 1) ELSE cs

\* _add_to_vector_store: content_chunks of document.content
content_chunks(content) == ChunksFrom(Split(content), 1)

\* the word windows of _create_document_chunks: chunk_size // 4 words, each
\* starting (chunk_size - chunk_overlap) // 4 ... words after the previous one
WindowTexts(content) ==
    LET ws == Split(content)
        chunk_size_words == manager_chunk_size \div CharsPerWord
        overlap_words == manager_chunk_overlap \div CharsPerWord
        step == chunk_size_words - overlap_words
        starts == SortedIn({i \in 0..(Len(ws) - 1) : i % step = 0}, 0, Len(ws) - 1)
    IN  AsSeq([k \in 1..Len(starts) |->
                  JoinRange(ws, starts[k] + 1, Min(starts[k] + chunk_size_words, Len(ws)))])

\* what can go wrong in one put_document call: the commit of the document row,
\* the embedding calls (none, the first of each loop, all), the commit of the
\* chunk rows, vector_store.add
StoreFaults ==
    {NoFault,
     [commit |-> "raise", embed |-> "none", chunks |-> "ok", add |-> "ok"],
     [commit |-> "ok", embed |-> "first", chunks |-> "ok", add |-> "ok"],
     [commit |-> "ok", embed |-> "all", chunks |-> "ok", add |-> "ok"],
     [commit |-> "ok", embed |-> "none", chunks |-> "raise", add |-> "ok"],
     [commit |-> "ok", embed |-> "none", chunks |-> "ok", add |-> "raise"]}

\* get_text_embedding raises for the i-th text of a loop
EmbedRaises(f, i) == f.embed = "all" \/ (f.embed = "first" /\ i = 1)

\* _create_document_chunks: the rows added to document_chunks; none when
\* there is no embedding model or when its commit raises, which the method
\* catches and prints
_create_document_chunks(m, doc, f) ==
    IF ~m.embedding_model \/ f.chunks = "raise" THEN <<>>
    ELSE LET texts == WindowTexts(doc.content)
         IN  AsSeq([k \in 1..Len(texts) |->
                       [document_id |-> doc.id, chunk_text |-> texts[k],
                        chunk_index |-> k - 1, embedded |-> ~EmbedRaises(f, k)]])

\* _add_to_vector_store: the nodes handed to vector_store.add; a chunk whose
\* embedding call raises is skipped, the summary is added as a node of its own
_add_to_vector_store(doc, f) ==
    LET chunks == content_chunks(doc.content)
        kept == SortedIn({i \in 1..Len(chunks) : ~EmbedRaises(f, i)}, 1, Len(chunks))
        nodes == AsSeq([k \in 1..Len(kept) |->
                     [text |-> chunks[kept[k]], embedded |-> TRUE,
                      document_id |-> doc.id, type |-> "content",
                      chunk_index |-> kept[k] - 1, total_chunks |-> Len(chunks)]])
    IN  IF doc.summary = NoText THEN nodes
        ELSE Append(nodes, [text |-> doc.summary, embedded |-> f.embed # "all",
                            document_id |-> doc.id, type |-> "summary",
                            chunk_index |-> 0, total_chunks |-> 0])

\* "Alpha Beta Gamma. " fifty times: 900 characters, 150 words
AlphaContent == Repeat(ShortSentence, 50)

\* a hundred words of 99 characters, each followed by a space: 10,000 characters
HundredWords == Repeat(<<Run("a", 99), Run("s", 1)>>, 100)

StoreContents == {NoText, AlphaContent, HundredWords, LongContent}

DocIds == {"doc-1", "doc-2"}

StoreSummary == Words(<<7, 2, 3, 8>>)

\* the EnhancedDocument values handed to put_document
StoreDocuments ==
    {[id |-> id, content |-> c, summary |-> StoreSummary, is_processed |-> TRUE] : id \in DocIds, c \in StoreContents}

\* PostgreSQLDocumentManager.__init__ and _init_vector_store: the vector store
\* exists only when the embedding model does
Managers ==
    {[created |-> TRUE, embedding_model |-> e, vector_store |-> v] :
        e \in BOOLEAN, v \in BOOLEAN} \ {[created |-> TRUE, embedding_model |-> FALSE, vector_store |-> TRUE]}

CreateManager ==
    /\ ~manager.created
    /\ manager' \in Managers
    /\ UNCHANGED <<documents, chunkTable, vectorStore, chunked, lastPut, clock, issued>>
    /\ UNCHANGED <<workflowVars, queryVars, handlerVars>>

\* variant: put_document stores an embedding of the content with the row
DocumentRecord_ContentEmbedded(m, doc, f) ==
    [id |-> doc.id, content |-> doc.content, summary |-> doc.summary,
     content_embedded |-> m.embedding_model,
     summary_embedded |-> m.embedding_model /\ f.embed # "all",
     is_processed |-> doc.is_processed]

\* put_document: the DocumentRecord it adds; content_embedding is always None,
\* the summary embedding is None when the embedding call raises
DocumentRecord(m, doc, f) ==
    [id |-> doc.id, content |-> doc.content, summary |-> doc.summary,
     content_embedded |-> FALSE,
     summary_embedded |-> m.embedding_model /\ f.embed # "all",
     is_processed |-> doc.is_processed]

\* a row with this primary key is in documents_enhanced
HasDocument(id) == \E i \in 1..Len(documents) : documents[i].id = id

\* a put_document call has committed the document row and has not returned
PutInProgress == lastPut.st \in {"committed", "chunked"}

\* put_document up to session.commit() of the document row: the commit raises
\* when the primary key exists or the database fails, and the call then
\* raises after the rollback; otherwise the row is in the table from here on
put_document(doc, f) ==
    LET committed == ~HasDocument(doc.id) /\ f.commit = "ok"
    IN  /\ documents' = IF committed
                        THEN Append(documents, DocumentRecord(manager, doc, f))
                        ELSE documents
        /\ lastPut' = [n |-> lastPut.n + 1, id |-> doc.id, content |-> doc.content,
                       summary |-> doc.summary,
                       existing |-> HasDocument(doc.id), raised |-> ~committed,
                       fault |-> f,
                       st |-> IF committed THEN "committed" ELSE "raised"]
        /\ UNCHANGED <<chunkTable, vectorStore, chunked>>

\* the document of the put_document call in progress
PutDoc == [id |-> lastPut.id, content |-> lastPut.content, summary |-> lastPut.summary]

\* one call of put_document by any caller, up to the commit of the row
PutDocument ==
    /\ manager.created
    /\ lastPut.n < MaxPuts
    /\ ~PutInProgress
    /\ \E doc \in StoreDocuments, f \in StoreFaults : put_document(doc, f)
    /\ UNCHANGED <<manager, clock, issued>>
    /\ UNCHANGED <<workflowVars, queryVars, handlerVars>>

\* put_document: _create_document_chunks embeds the windows and commits the
\* chunk rows in a transaction of their own
PutDocumentChunks ==
    /\ lastPut.st = "committed"
    /\ chunkTable' = chunkTable \o _create_document_chunks(manager, PutDoc, lastPut.fault)
    /\ lastPut' = [lastPut EXCEPT !.st = "chunked"]
    /\ UNCHANGED <<manager, documents, vectorStore, chunked, clock, issued>>
    /\ UNCHANGED <<workflowVars, queryVars, handlerVars>>

\* put_document: _add_to_vector_store, when there is a vector store and a
\* content, adds the nodes; its failure is caught; then the call returns
PutDocumentVector ==
    /\ lastPut.st = "chunked"
    /\ LET toVector == manager.vector_store /\ lastPut.content # NoText
       IN  /\ vectorStore' = IF toVector /\ lastPut.fault.add = "ok"
                             THEN vectorStore \o _add_to_vector_store(PutDoc, lastPut.fault)
                             ELSE vectorStore
           /\ chunked' = IF toVector
                         THEN [ran |-> TRUE, content |-> lastPut.content,
                               chunks |-> content_chunks(lastPut.content)]
                         ELSE chunked
    /\ lastPut' = [lastPut EXCEPT !.st = "returned"]
    /\ UNCHANGED <<manager, documents, chunkTable, clock, issued>>
    /\ UNCHANGED <<workflowVars, queryVars, handlerVars>>

NextStore ==
    \/ CreateManager
    \/ PutDocument
    \/ PutDocumentChunks
    \/ PutDocumentVector

SpecStore == Init /\ [][NextStore]_vars

(***************************************************************************)
(* enhanced_querying.py: EnhancedQueryEngine, and the searches of          *)
(* PostgreSQLDocumentManager                                               *)
(***************************************************************************)
SearchLimit == 5
SimilarityThreshold == 50
MinAnswerContentChars == 50
MinAnswerSummaryChars == 20
RelevancePercent == 15
max_length == 800
MinKeywordChars == 3
TopSentences == 3
MaxAnswerParts == 3

Max(a, b) == IF a >= b THEN a ELSE b

\* text.lower()
Lower(t) == Canon(AsSeq([i \in 1..Len(t) |-> IF t[i].c = "U" THEN Run("a", t[i].n) ELSE t[i]]))

\* q in t, for texts whose adjacent runs differ in class
IsSubstring(q, t) ==
    IF q = <<>> THEN TRUE
    ELSE IF Len(q) = 1 THEN \E i \in 1..Len(t) : t[i].c = q[1].c /\ t[i].n >= q[1].n
    ELSE \E i \in 1..(Len(t) - Len(q) + 1) :
            /\ t[i].c = q[1].c /\ t[i].n >= q[1].n
            /\ t[i + Len(q) - 1].c = q[Len(q)].c /\ t[i + Len(q) - 1].n >= q[Len(q)].n
            /\ \A k \in 2..(Len(q) - 1) : t[i + k - 1] = q[k]

\* DocumentRecord.content.ilike(f"%{query}%")
ilike(content, query) == IsSubstring(Lower(query), Lower(content))

\* set(text.lower().split())
WordSet(t) == LET ws == Split(Lower(t)) IN {ws[k] : k \in 1..Len(ws)}

\* overlap >= max(1, len(question_words) * 0.15)
Relevant(question_words, text_words) ==
    Cardinality(question_words \cap text_words) * 100
        >= Max(100, RelevancePercent * Cardinality(question_words))

\* EnhancedQueryEngine._is_relevant_to_question
_is_relevant_to_question(question, text) == Relevant(WordSet(question), WordSet(text))

\* content.replace('\n', ' ')
Flat(content) ==
    Canon(AsSeq([i \in 1..Len(content) |->
                    IF content[i].c = "n" THEN Run("s", content[i].n) ELSE content[i]]))

\* the runs of t at which a period followed by a space ends
Separators(t) ==
    SortedIn({i \in 1..(Len(t) - 1) : t[i].c = "." /\ t[i + 1].c = "s"}, 1, Len(t))

\* the run r without one of its characters
Less(r) == IF r.n = 1 THEN <<>> ELSE <<Run(r.c, r.n - 1)>>

\* the k-th piece of t.split('. '), the separators being at the runs seps
Piece(t, seps, k) ==
    IF k = 1
    THEN IF seps = <<>> THEN t
         ELSE SubSeq(t, 1, seps[1] - 1) \o Less(t[seps[1]])
    ELSE IF k > Len(seps)
    THEN Less(t[seps[k - 1] + 1]) \o SubSeq(t, seps[k - 1] + 2, Len(t))
    ELSE Less(t[seps[k - 1] + 1]) \o SubSeq(t, seps[k - 1] + 2, seps[k] - 1)
            \o Less(t[seps[k]])

Pieces(t, seps) == AsSeq([k \in 1..(Len(seps) + 1) |-> Piece(t, seps, k)])

\* t.split('. ')
SplitSentences(t) == Pieces(t, Separators(t))

\* content.replace('\n', ' ').split('. '): the pieces between the occurrences
\* of a period followed by a space
Sentences(content) == SplitSentences(Flat(content))

\* content[:max_length] + ("..." if len(content) > max_length else "")
Beginning(content) ==
    IF StrLen(content) > max_length
    THEN Canon(Take(content, max_length) \o <<Run(".", 3)>>)
    ELSE content

\* the loop over the top sentences: a sentence is added with ". " while the
\* snippet stays below max_length, and the loop ends at the first that is not
RECURSIVE AddSentences(_, _, _)
AddSentences(snippet, sentences, k) ==
    IF k > Len(sentences) THEN snippet
    ELSE IF StrLen(snippet) + StrLen(sentences[k]) < max_length
    THEN AddSentences(snippet \o sentences[k] \o <<Run(".", 1), Run("s", 1)>>, sentences, k + 1)
    ELSE snippet

\* variant: every word of the question is a keyword
Keywords_AnyLength(question) ==
    LET qws == Split(question)
    IN  {Lower(qws[k]) : k \in 1..Len(qws)}

\* the words of the question longer than MinKeywordChars, in lower case
Keywords(question) ==
    LET qws == Split(question)
    IN  {Lower(qws[k]) : k \in {j \in 1..Len(qws) : StrLen(qws[j]) > MinKeywordChars}}

\* for each sentence, the number of question words among its words
Overlaps(question_words, sentences) ==
    AsSeq([k \in 1..Len(sentences) |->
              Cardinality(question_words \cap WordSet(sentences[k]))])

\* the place of sentence i after the stable sort by overlap, largest first
Rank(overlap, i) ==
    Cardinality({j \in 1..Len(overlap) :
                    /\ overlap[j] > 0
                    /\ overlap[j] > overlap[i] \/ (overlap[j] = overlap[i] /\ j <= i)})

\* the stripped sentences with an overlap, after the stable sort
Sorted(overlap, sentences) ==
    AsSeq([r \in 1..Cardinality({k \in 1..Len(sentences) : overlap[k] > 0}) |->
              Strip(sentences[CHOOSE i \in 1..Len(sentences) :
                                 overlap[i] > 0 /\ Rank(overlap, i) = r])])

scored_sentences(question_words, sentences) ==
    Sorted(Overlaps(question_words, sentences), sentences)

\* snippet.strip() or the beginning of the content
SnippetOr(snippet, content) == IF snippet = <<>> THEN Beginning(content) ELSE snippet

\* the snippet of the first TopSentences scored sentences
SnippetOf(scored, content) ==
    IF scored = <<>> THEN Beginning(content)
    ELSE SnippetOr(Strip(Canon(AddSentences(<<>>, Prefix(scored, TopSentences), 1))),
                   content)

\* EnhancedQueryEngine._extract_relevant_snippet
_extract_relevant_snippet(question, content) ==
    SnippetOf(scored_sentences(Keywords(question), Sentences(content)), content)

\* query_index returned None
NoAnswer == [tier |-> "none", parts |-> <<>>, sources |-> <<>>]

\* what the collaborators of one query_index call do: the citation query
\* engine (answers from the nodes it retrieves, answers nothing, raises), the
\* embedding of the query, the database session, and the cosine similarity
\* (in hundredths) of the query with a stored document embedding
QueryFaults ==
    {[vector |-> v, embed |-> "ok", db |-> "ok", sim |-> s] :
        v \in {"answer", "empty", "raise"}, s \in {40, 90}}
    \cup {[vector |-> "empty", embed |-> "raise", db |-> "ok", sim |-> 90],
          [vector |-> "empty", embed |-> "ok", db |-> "raise", sim |-> 90]}

\* the EnhancedDocument built from a DocumentRecord row
EnhancedDocument(record) ==
    [id |-> record.id, content |-> record.content, summary |-> record.summary,
     is_processed |-> record.is_processed]

\* the response query_documents formats from what the engine gave: None when
\* the engine raised or its response text is empty, else the text with the
\* retrieved nodes as sources, of which there may be none (the text the engine
\* gives for no node at all is "Empty Response")
CitedResponse(question, retrieved, f) ==
    IF f.vector # "answer" THEN NoAnswer
    ELSE [tier |-> "vector", parts |-> <<question>>,
          sources |-> AsSeq([k \in 1..Min(Len(retrieved), SearchLimit) |->
                                [id |-> retrieved[k].document_id,
                                 kind |-> retrieved[k].type, similarity |-> f.sim]])]

\* PostgreSQLDocumentManager.query_documents: the formatted response of the
\* citation query engine over the nodes of the vector store, None without a
\* vector index, for an empty response and when the engine raises
query_documents(m, nodes, question, f) ==
    IF ~m.vector_store THEN NoAnswer
    ELSE CitedResponse(question, SelectSeq(nodes, LAMBDA n : n.embedded), f)

\* the results of a search: each record as an EnhancedDocument with a similarity
Results(records, similarity) ==
    AsSeq([k \in 1..Len(records) |->
              [doc |-> EnhancedDocument(records[k]), similarity |-> similarity]])

\* PostgreSQLDocumentManager._basic_text_search: the first limit rows whose
\* content contains the query, each with the similarity 1.0
_basic_text_search(rows, query, limit) ==
    Results(Prefix(SelectSeq(rows, LAMBDA r : ilike(r.content, query)), limit), 100)

\* the embedding branch of search_documents: of the first limit * 2 processed
\* rows, those with a content embedding whose similarity reaches the threshold
semantic_search(rows, f, limit, similarity_threshold) ==
    Prefix(Results(SelectSeq(Prefix(SelectSeq(rows, LAMBDA r : r.is_processed), limit * 2),
                             LAMBDA r : r.content_embedded /\ f.sim >= similarity_threshold),
                   f.sim),
           limit)

\* search_documents raises: the query embedding call or the session fails
SearchRaises(m, f) == f.db = "raise" \/ (m.embedding_model /\ f.embed = "raise")

\* PostgreSQLDocumentManager.search_documents
search_documents(m, rows, query, f, limit, similarity_threshold) ==
    IF ~m.embedding_model THEN _basic_text_search(rows, query, limit)
    ELSE semantic_search(rows, f, limit, similarity_threshold)

\* the loop of query_index over one search result: the part it appends and
\* the kind of its source, "none" when it appends nothing
AnswerPart(question, doc) ==
    IF doc.content # NoText /\ StrLen(Strip(doc.content)) > MinAnswerContentChars
    THEN IF _is_relevant_to_question(question, doc.content)
         THEN [kind |-> "content", text |-> _extract_relevant_snippet(question, doc.content)]
         ELSE IF _is_relevant_to_question(question, doc.summary)
         THEN [kind |-> "summary", text |-> doc.summary]
         ELSE [kind |-> "none", text |-> NoText]
    ELSE IF doc.summary # NoText /\ StrLen(Strip(doc.summary)) > MinAnswerSummaryChars
    THEN [kind |-> "summary", text |-> doc.summary]
    ELSE [kind |-> "none", text |-> NoText]

\* response_parts and sources after the loop over the search results
AnswerParts(question, search_results) ==
    SelectSeq(AsSeq([k \in 1..Len(search_results) |->
                        [part |-> AnswerPart(question, search_results[k].doc),
                         id |-> search_results[k].doc.id,
                         similarity |-> search_results[k].similarity]]),
              LAMBDA x : x.part.kind # "none")

\* the formatted response: the first MaxAnswerParts parts and sources
FormattedResponse(kept) ==
    IF kept = <<>> THEN NoAnswer
    ELSE [tier |-> "search",
          parts |-> AsSeq([k \in 1..Len(kept) |-> kept[k].part.text]),
          sources |-> AsSeq([k \in 1..Len(kept) |->
                                [id |-> kept[k].id, kind |-> kept[k].part.kind,
                                 similarity |-> kept[k].similarity]])]

\* the response query_index builds from search results: None when there is
\* no result or no part, else the first three parts and sources
BuildResponse(question, search_results) ==
    FormattedResponse(Prefix(AnswerParts(question, search_results), MaxAnswerParts))

\* the end of query_index: what the caller gets when a response was found
\* by the vector index, when the search raised, and from the search results
Answered(response, raised, searched) ==
    IF response # NoAnswer THEN [raised |-> FALSE, answer |-> response]
    ELSE IF raised THEN [raised |-> FALSE, answer |-> NoAnswer]
    ELSE [raised |-> FALSE, answer |-> searched]

\* EnhancedQueryEngine.query_index from the response of the vector index
\* (None without a vector index) on: a response is returned, else the search
\* reads the rows of the documents table; every exception is caught and None
\* returned
query_index(m, response, rows, question, f) ==
    Answered(response, SearchRaises(m, f),
             BuildResponse(question,
                 search_documents(m, rows, question, f, SearchLimit, SimilarityThreshold)))

\* a word of AlphaContent with a capital, a part of a word of LongContent,
\* three words of which one is in AlphaContent, a text found nowhere
QuestionWord == <<Run("U", 1), Run("a", 4)>>
QuestionPart == Words(<<6>>)
QuestionOverlap == Words(<<5, 7, 9>>)
QuestionAbsent == <<Run("a", 2), Run("?", 1)>>

Questions == {QuestionWord, QuestionPart, QuestionOverlap, QuestionAbsent}

\* sixteen characters of content, below the floor of an answer part
BriefContent == Words(<<5, 4, 5>>)

\* the documents put before the questions are asked
QueryDocuments ==
    {<<>>,
     <<[id |-> "doc-1", content |-> AlphaContent, summary |-> StoreSummary, is_processed |-> TRUE]>>,
     <<[id |-> "doc-1", content |-> BriefContent, summary |-> StoreSummary, is_processed |-> TRUE]>>,
     <<[id |-> "doc-1", content |-> AlphaContent, summary |-> StoreSummary, is_processed |-> TRUE],
       [id |-> "doc-2", content |-> LongContent, summary |-> StoreSummary, is_processed |-> TRUE]>>}

\* the tables after put_document was called for each of docs with no fault
RECURSIVE RowsAfter(_, _)
RowsAfter(m, docs) ==
    IF docs = <<>> THEN <<>>
    ELSE <<DocumentRecord(m, docs[1], NoFault)>> \o RowsAfter(m, Tail(docs))

RECURSIVE ChunkRowsAfter(_, _)
ChunkRowsAfter(m, docs) ==
    IF docs = <<>> THEN <<>>
    ELSE _create_document_chunks(m, docs[1], NoFault) \o ChunkRowsAfter(m, Tail(docs))

RECURSIVE NodesAfter(_, _)
NodesAfter(m, docs) ==
    IF docs = <<>> \/ ~m.vector_store THEN <<>>
    ELSE _add_to_vector_store(docs[1], NoFault) \o NodesAfter(m, Tail(docs))

\* a manager and a store filled by put_document, before any question
InitQuery ==
    /\ pc = "idle"
    /\ inflight = NoEvent
    /\ active = "none"
    /\ prepared = NoText
    /\ tasks = [name \in TaskNames |-> IdleTask(name)]
    /\ enhanced = NotEnhanced
    /\ entered = <<>>
    /\ extracted = [ok |-> FALSE, content |-> NoText, title |-> NoText]
    /\ extractAttempts = 0
    /\ result = NoResult
    /\ raisedOut = FALSE
    /\ document = NoEvent
    /\ mcp = MCPOff
    /\ mcpMemory = <<>>
    /\ manager \in Managers
    /\ \E docs \in QueryDocuments :
         /\ documents = RowsAfter(manager, docs)
         /\ chunkTable = ChunkRowsAfter(manager, docs)
         /\ vectorStore = NodesAfter(manager, docs)
         /\ chunked = IF docs = <<>> \/ ~manager.vector_store THEN NoChunking
                      ELSE [ran |-> TRUE, content |-> docs[Len(docs)].content,
                            chunks |-> content_chunks(docs[Len(docs)].content)]
         /\ lastPut = IF docs = <<>> THEN NoPut
                      ELSE [n |-> Len(docs), id |-> docs[Len(docs)].id,
                            content |-> docs[Len(docs)].content,
                            summary |-> docs[Len(docs)].summary, existing |-> FALSE,
                            raised |-> FALSE, fault |-> NoFault, st |-> "returned"]
    /\ clock = 0
    /\ issued = <<>>
    /\ lastQuery = NoQuery
    /\ lastSnippet = NoSnippet
    /\ call = NoCall
    /\ coroutine = NoCoroutine
    /\ loopTask = "none"
    /\ threadTask = NoThreadTask
    /\ active_tasks = {}
    /\ outcome = NoOutcome
    /\ session = NoSession
    /\ lastRun = NoRun

\* the record of a query_index call and of what it gave
Asked(question, f, r) ==
    [asked |-> TRUE, question |-> question, fault |-> f, raised |-> r.raised,
     answer |-> r.answer]

\* the record of a query_index call whose vector index gave no response and
\* whose search has not read the documents table yet
Searching(question, f) ==
    [asked |-> FALSE, searching |-> TRUE, question |-> question, fault |-> f]

\* a query_index call is between its vector index and its search
QueryInProgress == lastQuery # NoQuery /\ ~lastQuery.asked

\* query_index up to the end of its first await: with a vector index the
\* engine is awaited over the nodes of the vector store and its response
\* returned, or the search is still to come; without one the search reads the
\* documents table at once
QueryIndex ==
    /\ manager.created
    /\ ~QueryInProgress
    /\ \E question \in Questions, f \in QueryFaults :
         LET response == query_documents(manager, vectorStore, question, f)
         IN  lastQuery' =
                 IF manager.vector_store /\ response = NoAnswer
                 THEN Searching(question, f)
                 ELSE Asked(question, f,
                            query_index(manager, response, documents, question, f))
    /\ UNCHANGED lastSnippet
    /\ UNCHANGED <<workflowVars, storeVars, handlerVars>>

\* query_index after a vector index without response: search_documents reads
\* the documents table and the response is built from its results
QueryIndexSearch ==
    /\ QueryInProgress
    /\ lastQuery' = Asked(lastQuery.question, lastQuery.fault,
                          query_index(manager, NoAnswer, documents,
                                      lastQuery.question, lastQuery.fault))
    /\ UNCHANGED lastSnippet
    /\ UNCHANGED <<workflowVars, storeVars, handlerVars>>

NextQuery ==
    \/ QueryIndex
    \/ QueryIndexSearch

SpecQuery == InitQuery /\ [][NextQuery]_vars

(***************************************************************************)
(* streamlit_async_handler.py: StreamlitAsyncHandler                       *)
(***************************************************************************)
MaxCalls == 2        \* run_async_task calls in one behaviour

\* what the coroutine handed to run_async_task does: it returns a value or
\* raises an exception before the timeout, awaits beyond the timeout, or keeps
\* its thread busy without awaiting
Behaviours ==
    {[kind |-> "returns", value |-> v] : v \in {"value-1", "value-2"}}
    \cup {[kind |-> "raises", value |-> e] : e \in {"ValueError", "RuntimeError"}}
    \cup {[kind |-> "slow", value |-> "value-1"], [kind |-> "blocks", value |-> "value-1"]}

\* the one task _run_with_task_scheduling creates on the caller's loop
LoopTask == "loop-task"

Result(v) == [kind |-> "returned", value |-> v]
Raised(e) == [kind |-> "raised", value |-> e]

\* progress_callback(message), when a callback was given
Progress(c, message) ==
    IF c.progress_callback THEN [c EXCEPT !.messages = Append(@, message)] ELSE c

\* _run_with_task_scheduling on a running loop: the task is created and
\* tracked, run_until_complete raises RuntimeError because the loop is
\* running, and the finally clause discards the task from the tracking set
\* without cancelling it
_run_with_task_scheduling(tracked) ==
    [task |-> "pending", active_tasks |-> (tracked \cup {LoopTask}) \ {LoopTask},
     raised |-> "RuntimeError"]

\* _cleanup_completed_tasks: the tracked tasks that are done are removed
_cleanup_completed_tasks(tracked, task) ==
    {t \in tracked : ~(t = LoopTask /\ task \in {"failed", "cancelled"})}

\* variant: future.result wrapped so that every failure of the coroutine
\* reaches the caller as one RuntimeError
future_result_Wraps(r) == IF r.kind = "raised" THEN Raised("RuntimeError") ELSE r

\* future.result(timeout=timeout + 10) for a finished run_in_thread: its
\* return value, or the exception it raised
future_result(r) == r

\* run_async_task up to the wait on the executor's future: with a running
\* loop the task scheduling is tried first and its RuntimeError caught by the
\* handler meant for get_running_loop, then run_in_thread is submitted
RunAsyncTask ==
    /\ call.st \in {"idle", "returned"}
    /\ call.n < MaxCalls
    /\ threadTask.st \in {"none", "done"}
    /\ \E b \in Behaviours, loop_running \in BOOLEAN, progress_callback \in BOOLEAN :
         /\ call' = [n |-> call.n + 1, st |-> "waiting", loop_running |-> loop_running,
                     progress_callback |-> progress_callback, messages |-> <<>>]
         /\ coroutine' = [behaviour |-> b, st |-> "created", starts |-> 0]
         /\ loopTask' = IF loop_running THEN _run_with_task_scheduling(active_tasks).task
                        ELSE "none"
         /\ active_tasks' = IF loop_running
                            THEN _run_with_task_scheduling(active_tasks).active_tasks
                            ELSE active_tasks
    /\ threadTask' = [st |-> "submitted", result |-> NoOutcome]
    /\ outcome' = NoOutcome
    /\ UNCHANGED <<workflowVars, storeVars, queryVars, sessionVars>>

\* run_in_thread: a new loop, and the first step of _wrap_coroutine under
\* wait_for, which starts the coroutine
RunInThread ==
    /\ threadTask.st = "submitted"
    /\ threadTask' = [threadTask EXCEPT !.st = "running"]
    /\ coroutine' = [coroutine EXCEPT !.st = "running", !.starts = @ + 1]
    /\ call' = Progress(call, "Starting task...")
    /\ UNCHANGED <<loopTask, active_tasks, outcome>>
    /\ UNCHANGED <<workflowVars, storeVars, queryVars, sessionVars>>

\* the coroutine returns before the timeout
CoroutineReturns ==
    /\ threadTask.st = "running"
    /\ coroutine.st = "running" /\ coroutine.behaviour.kind = "returns"
    /\ coroutine' = [coroutine EXCEPT !.st = "finished"]
    /\ call' = Progress(call, "Task completed successfully")
    /\ threadTask' = [st |-> "done", result |-> Result(coroutine.behaviour.value)]
    /\ UNCHANGED <<loopTask, active_tasks, outcome>>
    /\ UNCHANGED <<workflowVars, storeVars, queryVars, sessionVars>>

\* the coroutine raises before the timeout
CoroutineRaises ==
    /\ threadTask.st = "running"
    /\ coroutine.st = "running" /\ coroutine.behaviour.kind = "raises"
    /\ coroutine' = [coroutine EXCEPT !.st = "raised"]
    /\ call' = Progress(call, "Task failed")
    /\ threadTask' = [st |-> "done", result |-> Raised(coroutine.behaviour.value)]
    /\ UNCHANGED <<loopTask, active_tasks, outcome>>
    /\ UNCHANGED <<workflowVars, storeVars, queryVars, sessionVars>>

\* the timeout of wait_for passes while the coroutine awaits: it is cancelled
\* and run_in_thread raises TimeoutError
WaitForTimeout ==
    /\ threadTask.st = "running"
    /\ coroutine.st = "running" /\ coroutine.behaviour.kind = "slow"
    /\ coroutine' = [coroutine EXCEPT !.st = "cancelled"]
    /\ call' = Progress(call, "Task was cancelled")
    /\ threadTask' = [st |-> "done", result |-> Raised("TimeoutError")]
    /\ UNCHANGED <<loopTask, active_tasks, outcome>>
    /\ UNCHANGED <<workflowVars, storeVars, queryVars, sessionVars>>

\* a coroutine that keeps its thread busy ends on its own, however long the
\* timeout has passed: the loop could not cancel it, and wait_for returns the
\* value of the finished task
BlockingCoroutineReturns ==
    /\ threadTask.st = "running"
    /\ coroutine.st = "running" /\ coroutine.behaviour.kind = "blocks"
    /\ coroutine' = [coroutine EXCEPT !.st = "finished"]
    /\ call' = Progress(call, "Task completed successfully")
    /\ threadTask' = [st |-> "done", result |-> Result(coroutine.behaviour.value)]
    /\ UNCHANGED <<loopTask, active_tasks, outcome>>
    /\ UNCHANGED <<workflowVars, storeVars, queryVars, sessionVars>>

\* future.result(timeout=timeout + 10) gives up on a coroutine that still
\* keeps its thread busy: run_async_task raises TimeoutError and the thread
\* goes on
FutureResultTimeout ==
    /\ call.st = "waiting"
    /\ threadTask.st = "running"
    /\ coroutine.st = "running" /\ coroutine.behaviour.kind = "blocks"
    /\ outcome' = Raised("TimeoutError")
    /\ call' = [call EXCEPT !.st = "returned"]
    /\ active_tasks' = _cleanup_completed_tasks(active_tasks, loopTask)
    /\ UNCHANGED <<coroutine, loopTask, threadTask>>
    /\ UNCHANGED <<workflowVars, storeVars, queryVars, sessionVars>>

\* run_in_thread has ended: run_async_task returns its value or raises its
\* exception, after _cleanup_completed_tasks
RunAsyncTaskEnds ==
    /\ call.st = "waiting"
    /\ threadTask.st = "done"
    /\ outcome' = future_result(threadTask.result)
    /\ call' = [call EXCEPT !.st = "returned"]
    /\ active_tasks' = _cleanup_completed_tasks(active_tasks, loopTask)
    /\ UNCHANGED <<coroutine, loopTask, threadTask>>
    /\ UNCHANGED <<workflowVars, storeVars, queryVars, sessionVars>>

\* back in the caller's loop, the task left on it runs: _wrap_coroutine
\* awaits the coroutine a second time, which raises RuntimeError and does not
\* start the coroutine again
LoopTaskRuns ==
    /\ call.st = "returned" /\ call.loop_running
    /\ loopTask = "pending"
    /\ loopTask' = "failed"
    /\ call' = Progress(Progress(call, "Starting task..."), "Task failed")
    /\ UNCHANGED <<coroutine, threadTask, active_tasks, outcome>>
    /\ UNCHANGED <<workflowVars, storeVars, queryVars, sessionVars>>

NextHandler ==
    \/ RunAsyncTask
    \/ RunInThread
    \/ CoroutineReturns
    \/ CoroutineRaises
    \/ WaitForTimeout
    \/ BlockingCoroutineReturns
    \/ FutureResultTimeout
    \/ RunAsyncTaskEnds
    \/ LoopTaskRuns

SpecHandler == Init /\ [][NextHandler]_vars

(***************************************************************************)
(* Enhanced_Home.py: the page stores the document of a finished run        *)
(***************************************************************************)
MaxSeconds == 2      \* seconds the wall clock advances in one behaviour

\* f"doc_{int(time.time())}"
DocumentId(now) == "doc_" \o ToString(now)

\* a second of the wall clock passes
Tick ==
    /\ clock < MaxSeconds
    /\ clock' = clock + 1
    /\ UNCHANGED <<manager, documents, chunkTable, vectorStore, chunked, lastPut, issued>>
    /\ UNCHANGED <<workflowVars, queryVars, handlerVars>>

\* run_enhanced_workflow of the page, after the pipeline returned: the
\* document gets the id of the current second and is handed to put_document,
\* whose exception is caught and printed as a warning
StoreProcessedDocument ==
    /\ manager.created
    /\ lastPut.n < MaxPuts
    /\ ~PutInProgress
    /\ \E content \in StoreContents \ {NoText}, f \in StoreFaults :
         put_document([id |-> DocumentId(clock), content |-> content,
                       summary |-> StoreSummary, is_processed |-> TRUE], f)
    /\ issued' = Append(issued, DocumentId(clock))
    /\ UNCHANGED <<manager, clock>>
    /\ UNCHANGED <<workflowVars, queryVars, handlerVars>>

NextPage ==
    \/ CreateManager
    \/ Tick
    \/ StoreProcessedDocument
    \/ PutDocumentChunks
    \/ PutDocumentVector

SpecPage == Init /\ [][NextPage]_vars

(***************************************************************************)
(* streamlit_async_handler.py: StreamlitSessionManager, run_workflow_async *)
(***************************************************************************)
MaxRuns == 3         \* run_workflow_async calls in one behaviour

\* the documents a caller of run_enhanced_workflow_streamlit names: a file and
\* the title the page gives it
CallDocuments ==
    {[file_path |-> "a.pdf", document_title |-> "Report A"],
     [file_path |-> "b.pdf", document_title |-> "Report B"]}

\* the titles the document processor finds in a file
FileTitles == {"Untitled Document", "Document (PyPDF2 fallback)"}

\* a result dictionary, by its status and the title of its document: the
\* result of finalize_workflow has a document_title, the title found in the
\* file; the error results of the steps, the reports of the runner and the
\* error results built by run_workflow_async have none
Report(status, title) ==
    IF status = "success" THEN [status |-> status, document_title |-> title]
    ELSE [status |-> status]

\* what handler.run_async_task gives for run_enhanced_workflow_v2(file_path,
\* document_title): the report the runner returned, whose title is the one
\* found in the file whatever the title of the call, or an exception
WorkflowOutcomes ==
    {Result(Report(st, title)) : st \in {"success", "error", "timeout", "failed"},
                                 title \in FileTitles}
    \cup {Raised(e) : e \in {"TimeoutError", "OPENAI_API_KEY not set", "RuntimeError"}}

\* what storing in the session state does: it succeeds, or it raises
StoreOutcomes == {"ok", "raise"}

\* the record set_workflow_result stores when storing the result raised; its
\* error is the text of the exception
StorageError ==
    [status |-> "storage_error", error |-> "session state unavailable",
     summary |-> "Failed to store results in session state"]

\* StreamlitSessionManager.set_workflow_result: the result is stored with
\* the time and the key of this call, which replace those it may carry; when
\* that raises, the storage_error record is stored in its place
set_workflow_result(s, key, r, now, f) ==
    [s EXCEPT ![key] = IF f = "raise" THEN StorageError
                       ELSE [_stored_at |-> now, _storage_key |-> key] @@ r]

\* StreamlitSessionManager.get_workflow_result
get_workflow_result(s, key) == s[key]

\* StreamlitSessionManager.clear_workflow_result
clear_workflow_result(s, key) == [s EXCEPT ![key] = NoStored]

\* variant: any stored result is taken for the result of the call
Cached_AnyStatus(existing_result) == existing_result # NoStored

\* run_workflow_async: existing_result and existing_result.get("status") == "success"
Cached(existing_result) ==
    existing_result # NoStored /\ existing_result.status = "success"

\* run_workflow_async: the result of a run, from what run_async_task gave
RunResult(o) ==
    IF o.kind = "returned" THEN o.value
    ELSE IF o.value = "TimeoutError" THEN Report("timeout", "")
    ELSE IF o.value = "OPENAI_API_KEY not set" THEN Report("api_key_missing", "")
    ELSE Report("error", "")

\* run_workflow_async up to the call of run_async_task: a stored success is
\* returned, anything else lets the workflow run
RunWorkflowAsyncBegin ==
    /\ lastRun.st # "running"
    /\ lastRun.n < MaxRuns
    /\ \E key \in SessionKeys, doc \in CallDocuments :
         LET existing_result == get_workflow_result(session, key)
         IN  lastRun' = [n |-> lastRun.n + 1,
                         st |-> IF Cached(existing_result) THEN "returned" ELSE "running",
                         session_key |-> key,
                         file_path |-> doc.file_path,
                         document_title |-> doc.document_title,
                         existing_result |-> existing_result,
                         ran |-> FALSE,
                         store |-> "none",
                         value |-> IF Cached(existing_result) THEN existing_result
                                   ELSE NoStored,
                         stored_by |-> lastRun.stored_by]
    /\ UNCHANGED session
    /\ UNCHANGED taskVars
    /\ UNCHANGED <<workflowVars, storeVars, queryVars>>

\* run_async_task returned or raised: the result or the error result is
\* handed to set_workflow_result under the session key and returned, whatever
\* the storing did
RunWorkflowAsyncEnd ==
    /\ lastRun.st = "running"
    /\ \E o \in WorkflowOutcomes, f \in StoreOutcomes :
         /\ session' = set_workflow_result(session, lastRun.session_key,
                                           RunResult(o), lastRun.n, f)
         /\ lastRun' = [lastRun EXCEPT
                            !.st = "returned", !.ran = TRUE, !.store = f,
                            !.value = RunResult(o),
                            !.stored_by[lastRun.session_key] =
                                [file_path |-> lastRun.file_path,
                                 document_title |-> lastRun.document_title]]
    /\ UNCHANGED taskVars
    /\ UNCHANGED <<workflowVars, storeVars, queryVars>>

\* the page clears a stored result
ClearWorkflowResult ==
    /\ lastRun.st # "running"
    /\ \E key \in SessionKeys :
         /\ session[key] # NoStored
         /\ session' = clear_workflow_result(session, key)
    /\ UNCHANGED lastRun
    /\ UNCHANGED taskVars
    /\ UNCHANGED <<workflowVars, storeVars, queryVars>>

NextSession ==
    \/ RunWorkflowAsyncBegin
    \/ RunWorkflowAsyncEnd
    \/ ClearWorkflowResult

SpecSession == Init /\ [][NextSession]_vars

(***************************************************************************)
(* _prepare_content on contents around the input-size ceiling              *)
(***************************************************************************)
MaxSlack == 2        \* distance of the lengths tried from a threshold

Near(v) == (v - MaxSlack)..(v + MaxSlack)

\* 0-based indexes of the period: around 80% of the ceiling and around its end
PeriodIndexes == Near((chunk_size * 8) \div 10) \cup Near(chunk_size - 1)

\* number of characters after the period
TailLengths == {0, chunk_size} \cup Near(chunk_size \div 5)

\* a text with one period, the same with blanks to normalize after the
\* period, with an earlier second period, and without any period
PrepareInputs ==
    UNION {{<<Run("a", x), Run(".", 1), Run("a", y + 1)>>,
            <<Run("a", x), Run(".", 1), Run("s", 3), Run("a", y + 1)>>,
            <<Run("a", 10), Run(".", 1), Run("a", x - 11), Run(".", 1), Run("a", y + 1)>>,
            <<Run("a", x + y + 2)>>} : x \in PeriodIndexes, y \in TailLengths}

\* the run after process_document returned the event of such a content
InitPrepare ==
    /\ pc = "running"
    /\ \E c \in PrepareInputs :
         /\ inflight = DocumentProcessedEvent(c, UntitledDocument, "doc.pdf")
         /\ extracted = [ok |-> TRUE, content |-> c, title |-> UntitledDocument]
    /\ document = inflight
    /\ active = "none"
    /\ prepared = NoText
    /\ tasks = [name \in TaskNames |-> IdleTask(name)]
    /\ enhanced = NotEnhanced
    /\ entered = <<"process_document">>
    /\ extractAttempts = 1
    /\ result = NoResult
    /\ raisedOut = FALSE
    /\ mcp = MCPOff
    /\ mcpMemory = <<>>
    /\ manager = NoManager
    /\ documents = <<>>
    /\ chunkTable = <<>>
    /\ vectorStore = <<>>
    /\ chunked = NoChunking
    /\ lastPut = NoPut
    /\ clock = 0
    /\ issued = <<>>
    /\ lastQuery = NoQuery
    /\ lastSnippet = NoSnippet
    /\ call = NoCall
    /\ coroutine = NoCoroutine
    /\ loopTask = "none"
    /\ threadTask = NoThreadTask
    /\ active_tasks = {}
    /\ outcome = NoOutcome
    /\ session = NoSession
    /\ lastRun = NoRun

NextPrepare == EnhanceContentBegin

SpecPrepare == InitPrepare /\ [][NextPrepare]_vars

(***************************************************************************)
(* _extract_relevant_snippet on contents of a few sentences                *)
(***************************************************************************)
MaxSentences == 4    \* sentences of a content

\* questions: three keywords; a word of three characters and a keyword in
\* upper case; no keyword
SnippetQuestions ==
    {Words(<<5, 7, 9>>), <<Run("a", 3), Run("s", 1), Run("U", 5)>>, Words(<<2, 3>>)}

\* sentences, by the lengths of their words: no word of a question; a word of
\* three characters; one keyword; two keywords; three keywords in 402
\* characters; one keyword in 800 characters
SnippetSentences ==
    {Words(<<4, 6>>), Words(<<3, 4>>), Words(<<5, 4>>), Words(<<7, 5, 2>>),
     Words(<<5, 7, 9, 378>>), Words(<<7, 792>>)}

\* the sentences joined by ". ", with a final period
RECURSIVE JoinSentences(_)
JoinSentences(ss) ==
    IF Len(ss) = 1 THEN ss[1] \o <<Run(".", 1)>>
    ELSE ss[1] \o <<Run(".", 1), Run("s", 1)>> \o JoinSentences(Tail(ss))

RECURSIVE SentenceLists(_)
SentenceLists(n) ==
    IF n = 0 THEN {<<>>}
    ELSE {<<s>> \o ss : s \in SnippetSentences, ss \in SentenceLists(n - 1)}

SnippetContents ==
    {JoinSentences(ss) : ss \in UNION {SentenceLists(n) : n \in 1..MaxSentences}}

\* the call of _extract_relevant_snippet of a behaviour (the function keeps
\* no state, so one call is followed)
ExtractSnippet ==
    /\ ~lastSnippet.called
    /\ \E question \in SnippetQuestions, content \in SnippetContents :
         lastSnippet' = [called |-> TRUE, question |-> question, content |-> content,
                         text |-> _extract_relevant_snippet(question, content)]
    /\ UNCHANGED lastQuery
    /\ UNCHANGED <<workflowVars, storeVars, handlerVars>>

NextSnippet == ExtractSnippet

SpecSnippet == Init /\ [][NextSnippet]_vars

(***************************************************************************)
(* Properties                                                              *)
(***************************************************************************)
Stages ==
    <<"process_document", "enhance_content", "generate_notebook",
      "finalize_workflow">>

Done == pc = "done"

\* the run has failed: a step returned an error report, or the runner built one
Failed ==
    \/ inflight.type = "StopEvent" /\ inflight.result.status = "error"
    \/ Done /\ result.status \in {"error", "timeout", "failed"}

\* C1: on success the returned md_content, full_content and content_size all
\* have exactly the length of the content string the extractor returned
C1_ContentLengthPreserved ==
    (Done /\ result.status = "success") =>
        /\ StrLen(result.md_content) = StrLen(extracted.content)
        /\ StrLen(result.full_content) = StrLen(extracted.content)
        /\ result.content_size = StrLen(extracted.content)

\* C2: the stages Extracting, Enriching, Assembling, Ready are entered only in
\* that order and none is entered twice; once the run has failed no stage is
\* entered any more and the run stays failed
C2_StagesInOrder ==
    /\ [](Len(entered) <= Len(Stages) /\ entered = SubSeq(Stages, 1, Len(entered)))
    /\ [][Failed => (entered' = entered /\ Failed')]_vars

C2_Witness ==
    /\ Done /\ result.status = "error"
    /\ entered = SubSeq(Stages, 1, 3)

\* the extractor returned no usable document: no file, an extraction error, or
\* content or title rejected by the event's validation
ExtractionFailed ==
    /\ entered # <<>>
    /\ \/ ~extracted.ok
       \/ ~DocumentProcessedEventValid(extracted.content, extracted.title)

\* C3: when extraction fails the run ends at once with a failure report whose
\* stage is document processing and whose recoverable flag is false;
\* enrichment and assembly are never invoked
C3_ExtractionFailureEndsRun ==
    ExtractionFailed =>
        /\ entered = <<"process_document">>
        /\ inflight.type = "StopEvent"
        /\ inflight.result.status = "error"
        /\ inflight.result.error_stage = "document_processing"
        /\ inflight.result.recoverable = FALSE
        /\ Done => result = inflight.result

C3_Witness ==
    /\ Done /\ ExtractionFailed /\ extracted.ok
    /\ result.error_stage = "document_processing"

\* C4: a failure of enrichment (the enhanced event cannot be built from what
\* the enhancer returned) never ends the run: no failure report of the stage
\* content enhancement is ever produced
C4_EnrichmentFailureContinues ==
    ~(/\ inflight.type = "StopEvent"
      /\ inflight.result.status = "error"
      /\ inflight.result.error_stage = "content_enhancement")

\* assembly was entered and returned an error report
AssemblyFailed ==
    /\ entered = SubSeq(Stages, 1, 3)
    /\ inflight.type = "StopEvent"

\* C5: when assembly fails the result of the run still carries the enrichment
\* output (summary, key points, Q&A, topics)
C5_AssemblyFailureKeepsEnrichment ==
    (Done /\ AssemblyFailed) =>
        {"summary", "q_and_a", "bullet_points"} \subseteq DOMAIN result

\* C6: every failure report names the stage that failed and the cause, carries
\* a boolean recoverable flag and a non-empty partial result
C6_FailureReportComplete ==
    (Done /\ result.status # "success") =>
        /\ {"error_stage", "stage"} \cap DOMAIN result # {}
        /\ {"error_message", "error"} \cap DOMAIN result # {}
        /\ "recoverable" \in DOMAIN result
        /\ {"partial_content", "summary", "md_content"} \cap DOMAIN result # {}

\* C7: no exception propagates out of run_enhanced_workflow_v2; the caller
\* always receives a report that has a status
C7_RunnerNeverRaises ==
    /\ ~raisedOut
    /\ Done => ("status" \in DOMAIN result /\ result.status # "none")

C7_Witness ==
    Done /\ result.status = "failed" /\ entered = <<>>

\* C8: every result of enhance_document has as many questions as answers and
\* at least three pairs
C8_QAPairsCardinality ==
    enhanced.returned =>
        /\ Len(enhanced.content.questions) = Len(enhanced.content.answers)
        /\ Len(enhanced.content.questions) >= MinQAPairs

\* C9: in every result of enhance_document every question ends with a
\* question mark and every answer has at least 20 characters after trimming
C9_QAWellFormed ==
    enhanced.returned =>
        /\ \A i \in 1..Len(enhanced.content.questions) :
             EndsWithQ(enhanced.content.questions[i])
        /\ \A i \in 1..Len(enhanced.content.answers) :
             StrLen(Strip(enhanced.content.answers[i])) >= MinAnswerChars

\* a result whose pairs were parsed from a completion, one of the questions
\* having been completed with its question mark by the parser
C9_Witness ==
    /\ enhanced.returned
    /\ enhanced.content.metadata.enhancement_model = "gpt-4o"
    /\ \E p \in QAPairTexts :
         enhanced.content.questions = _parse_qa_pairs(Repeat(p, MaxPairs)).questions

\* C10: when the completion client raises on every call the result has at
\* least three key points, at least three pairs of equal count, and a quality
\* score of at most 0.5
C10_AllCallsRaise ==
    (enhanced.returned /\ enhanced.allRaised) =>
        /\ Len(enhanced.content.key_points) >= MinKeyPoints
        /\ Len(enhanced.content.questions) = Len(enhanced.content.answers)
        /\ Len(enhanced.content.questions) >= MinQAPairs
        /\ enhanced.content.metadata.quality_score <= FallbackQuality

\* enhance_document returned through its timeout handler: it returned although
\* some sub-task had not finished
TimedOut == enhanced.returned /\ \E name \in TaskNames : tasks[name].st # "done"

\* the field of an enhance_document result that a sub-task feeds
Field(content, name) ==
    CASE name = "summary" -> content.summary
      [] name = "key_points" -> content.key_points
      [] name = "qa" -> [questions |-> content.questions, answers |-> content.answers]
      [] OTHER -> content.topics

\* C11: when the shared timeout of the four sub-tasks expires, every field of
\* the result is the fallback built from the document, and no field holds what
\* a sub-task that had already finished obtained from the completion client
C11_TimeoutAllFallback ==
    [][(~TimedOut /\ TimedOut') =>
          /\ \A name \in TaskNames :
                Field(enhanced'.content, name) =
                    Field(_create_fallback_content(inflight, ""), name)
          /\ \A name \in TaskNames :
                (tasks[name].st = "done" /\ ~tasks[name].raised) =>
                    Field(enhanced'.content, name) # tasks[name].val]_vars

\* a timed-out enrichment in which the summary and the Q&A sub-tasks had
\* already got their answers from the completion client
C11_Witness ==
    /\ TimedOut
    /\ tasks["summary"].st = "done" /\ ~tasks["summary"].raised
    /\ tasks["qa"].st = "done" /\ ~tasks["qa"].raised

\* the validator of a sub-task keeps the value it is given
Accepted(name, val) ==
    CASE name = "summary" -> StrLen(Strip(val)) >= MinSummaryChars
      [] name = "key_points" -> Len(val) >= MinKeyPoints
      [] name = "qa" -> validate_qa_quality(val.questions, val.answers)
      [] OTHER -> Len(val) >= MinTopics

\* the sub-task got an answer from the completion client and its validator
\* keeps it
Succeeded(name) == ~tasks[name].raised /\ Accepted(name, tasks[name].val)

\* the deterministic substitutes of a field: the one of the sub-task and the
\* one of its validator
Fallbacks(name, content, title) ==
    CASE name = "summary" -> {_create_fallback_summary(content, title),
                              _create_fallback_summary(content, DocumentWord)}
      [] name = "key_points" -> {_create_fallback_key_points(content),
                                 ValidatorKeyPoints}
      [] name = "qa" -> {_create_fallback_qa(content)}
      [] OTHER -> {_create_fallback_topics(content), ValidatorTopics}

\* enhance_document returns with the values of the four finished sub-tasks
GatherReturns == ~enhanced.returned /\ enhanced'.returned /\ ~TimedOut'

\* C12: when exactly one sub-task raised or returned output its validator
\* rejects, and the others succeeded within the timeout, only the field of
\* that sub-task is a deterministic fallback, every other field is the value
\* its own sub-task produced, and the result is not the whole-stage fallback
C12_SingleFailureIsolated ==
    [][(GatherReturns /\ Cardinality({name \in TaskNames : ~Succeeded(name)}) = 1) =>
          /\ \A name \in TaskNames :
                IF Succeeded(name)
                THEN Field(enhanced'.content, name) = tasks[name].val
                ELSE Field(enhanced'.content, name)
                         \in Fallbacks(name, prepared, inflight.title)
          /\ enhanced'.content.metadata.enhancement_model = "gpt-4o"]_vars

\* the summary call raised, the three other fields hold completions
C12_Witness ==
    /\ enhanced.returned /\ ~TimedOut
    /\ {name \in TaskNames : tasks[name].raised} = {"summary"}
    /\ enhanced.content.key_points \notin Fallbacks("key_points", prepared, NoText)
    /\ Field(enhanced.content, "qa") \notin Fallbacks("qa", prepared, NoText)
    /\ enhanced.content.topics \notin Fallbacks("topics", prepared, NoText)
    /\ Len(enhanced.content.questions) >= MinQAPairs

\* C13: after the enrichment timeout no sub-task is in flight (the pending
\* ones are cancelled), the result is the fallback content, and from then on
\* no sub-task completes, contributes a value or is started again
C13_TimeoutCancelsAll ==
    /\ [](TimedOut =>
            /\ \A name \in TaskNames : tasks[name].st \in {"done", "cancelled"}
            /\ \E name \in TaskNames : tasks[name].st = "cancelled"
            /\ enhanced.content.metadata.enhancement_model = "fallback")
    /\ [][TimedOut => (tasks' = tasks /\ enhanced' = enhanced)]_vars

\* the run went on to the end after an enrichment timeout that cancelled all
\* four sub-tasks
C13_Witness ==
    /\ TimedOut /\ Done
    /\ \A name \in TaskNames : tasks[name].st = "cancelled"

\* C14: the quality_score of every enhance_document result is the value
\* computed from the summary, key points, questions and answers of that same
\* result, and lies between 0 and 1
C14_ScoreIsStructural ==
    enhanced.returned =>
        /\ enhanced.content.metadata.quality_score =
               _calculate_quality_score(enhanced.content.summary,
                                        enhanced.content.key_points,
                                        enhanced.content.questions,
                                        enhanced.content.answers)
        /\ enhanced.content.metadata.quality_score \in 0..100

\* C15: in a run whose extraction fails no second extraction attempt is made
\* before the failure is reported
C15_ExtractionAttemptedOnce ==
    ExtractionFailed => extractAttempts <= 1

\* C16: once the DocumentProcessedEvent exists it is never changed, and every
\* later event of the run (the document event in flight, the original_event
\* of the ContentEnhancedEvent, the original_document of the
\* NotebookReadyEvent) is that event with its whole raw_content, with MCP
\* enabled or not; the MCP memory alone holds a shortened copy
C16_DocumentEventImmutable ==
    /\ [](document # NoEvent =>
            /\ inflight.type = "DocumentProcessedEvent" => inflight = document
            /\ inflight.type = "ContentEnhancedEvent" =>
                   inflight.original_event = document
            /\ inflight.type = "NotebookReadyEvent" =>
                   original_document(inflight) = document)
    /\ [][document # NoEvent => document' = document]_vars

C16_Witness ==
    /\ MCPActive(mcp) /\ inflight.type = "NotebookReadyEvent"
    /\ StrLen(document.raw_content) > MemoryChars
    /\ mcpMemory # <<>>
    /\ StrLen(mcpMemory[1].observation) = ObservationChars
    /\ StrLen(original_document(inflight).raw_content) > MemoryChars

\* C17: while the workflow runs there is exactly one event in flight and at
\* most one step declared for its type; the active step is the one step that
\* takes the event in flight; every step that was entered took the event the
\* step before it is declared to emit, and emitted one event of its declared
\* type or the StopEvent; no step was entered twice, so no event was consumed
\* twice
C17_OneEventOneStep ==
    /\ pc = "running" =>
          /\ inflight # NoEvent
          /\ Cardinality(Dispatch(inflight.type)) =
                 IF inflight.type = "StopEvent" THEN 0 ELSE 1
          /\ (active = "none" /\ entered # <<>>) =>
                 inflight.type \in {Emits(entered[Len(entered)]), "StopEvent"}
    /\ active # "none" =>
          /\ Dispatch(inflight.type) = {active}
          /\ entered[Len(entered)] = active
    /\ entered # <<>> => "StartEvent" \in Accepts(entered[1])
    /\ \A i \in 1..(Len(entered) - 1) : Emits(entered[i]) \in Accepts(entered[i + 1])
    /\ \A i, j \in 1..Len(entered) : entered[i] = entered[j] => i = j

C17_Witness ==
    /\ pc = "running" /\ inflight.type = "StopEvent"
    /\ inflight.result.status = "success"
    /\ Len(entered) = Cardinality(StepNames)

\* the content with every run of whitespace replaced by one space and the
\* whitespace at both ends removed
Normalized(t) ==
    LET s == Strip(t)
        keep == SortedIn({i \in 1..Len(s) : ~IsWs(s[i]) \/ ~IsWs(s[i - 1])}, 1, Len(s))
    IN  AsSeq([k \in 1..Len(keep) |->
                  IF IsWs(s[keep[k]]) THEN Run("s", 1) ELSE s[keep[k]]])

\* C18: the chunks the chunking loop made of a content, joined again with
\* single spaces, are the whitespace-normalized content: no word is lost,
\* duplicated or moved
C18_ChunkRoundTrip ==
    chunked.ran => Join(chunked.chunks) = Normalized(chunked.content)

C18_Witness ==
    /\ chunked.ran /\ Len(chunked.chunks) = 4
    /\ chunked.content # Normalized(chunked.content)
    /\ StrLen(chunked.chunks[4]) + 1 < max_chunk_size

\* C19: every chunk of the chunking loop is non-empty and has at most
\* max_chunk_size characters
C19_ChunkWithinCeiling ==
    chunked.ran =>
        \A k \in 1..Len(chunked.chunks) :
            chunked.chunks[k] # NoText /\ StrLen(chunked.chunks[k]) <= max_chunk_size

\* the chunk_text of the rows of document_chunks for a document, in order
ChunkTextsOf(id) ==
    LET Mine(row) == row.document_id = id
        rows == SelectSeq(chunkTable, Mine)
    IN  AsSeq([k \in 1..Len(rows) |-> rows[k].chunk_text])

\* the text of the content nodes of the vector store for a document, in order
NodeTextsOf(id) ==
    LET Mine(node) == node.document_id = id /\ node.type = "content"
        nodes == SelectSeq(vectorStore, Mine)
    IN  AsSeq([k \in 1..Len(nodes) |-> nodes[k].text])

\* C20: after put_document was called for a document id that was already
\* stored, the chunk rows and the content nodes of that id are exactly the
\* chunks of the content of this last call
C20_ReprocessReplacesChunks ==
    (lastPut.existing /\ manager.embedding_model /\ manager.vector_store) =>
        /\ ChunkTextsOf(lastPut.id) = WindowTexts(lastPut.content)
        /\ NodeTextsOf(lastPut.id) = content_chunks(lastPut.content)

\* the rows of document_chunks for a document, in order
ChunkRowsOf(id) ==
    LET Mine(row) == row.document_id = id
    IN  SelectSeq(chunkTable, Mine)

\* the content nodes of the vector store for a document, in order
ContentNodesOf(id) ==
    LET Mine(node) == node.document_id = id /\ node.type = "content"
    IN  SelectSeq(vectorStore, Mine)

\* the last put_document stored a new document with both chunkers at work
StoredWithChunks ==
    /\ lastPut.st = "returned" /\ lastPut.content # NoText
    /\ manager.embedding_model /\ manager.vector_store
    /\ lastPut.fault.chunks = "ok" /\ lastPut.fault.add = "ok"

\* C21: when the embedding call fails for one chunk during put_document,
\* the chunk is stored all the same, without an embedding, in the chunk
\* table and in the vector store, and the other chunks of the document are
\* stored with their embeddings
C21_EmbeddingFailurePerChunk ==
    (StoredWithChunks /\ lastPut.fault.embed = "first") =>
        /\ ChunkTextsOf(lastPut.id) = WindowTexts(lastPut.content)
        /\ \A k \in 1..Len(ChunkRowsOf(lastPut.id)) :
               ChunkRowsOf(lastPut.id)[k].embedded = (k # 1)
        /\ NodeTextsOf(lastPut.id) = content_chunks(lastPut.content)
        /\ \A k \in 1..Len(ContentNodesOf(lastPut.id)) :
               ContentNodesOf(lastPut.id)[k].embedded = (k # 1)

\* C22: after put_document returned or raised for a new document id, either
\* the document row, all its chunk rows and all its vector nodes are stored,
\* or nothing of the document is stored
C22_PutIsAtomic ==
    (/\ lastPut.st \in {"returned", "raised"}
     /\ ~lastPut.existing /\ lastPut.content # NoText
     /\ manager.embedding_model /\ manager.vector_store
     /\ lastPut.fault.embed = "none") =>
        \/ /\ HasDocument(lastPut.id)
           /\ ChunkTextsOf(lastPut.id) = WindowTexts(lastPut.content)
           /\ NodeTextsOf(lastPut.id) = content_chunks(lastPut.content)
        \/ /\ ~HasDocument(lastPut.id)
           /\ ChunkRowsOf(lastPut.id) = <<>>
           /\ ContentNodesOf(lastPut.id) = <<>>

\* the three tiers for the question last asked, each on its own: the vector
\* index, the search by document embedding, the substring search
VectorTier ==
    query_documents(manager, vectorStore, lastQuery.question, lastQuery.fault)

LexicalTier ==
    IF manager.embedding_model
    THEN BuildResponse(lastQuery.question,
                       semantic_search(documents, lastQuery.fault, SearchLimit,
                                       SimilarityThreshold))
    ELSE NoAnswer

SubstringTier ==
    BuildResponse(lastQuery.question,
                  _basic_text_search(documents, lastQuery.question, SearchLimit))

\* a collaborator of the last query_index call raised
QueryFailed ==
    \/ manager.vector_store /\ lastQuery.fault.vector = "raise"
    \/ VectorTier = NoAnswer /\ SearchRaises(manager, lastQuery.fault)

\* the stored documents of whose content the question is a case-insensitive
\* substring
Containing(question) ==
    {i \in 1..Len(documents) : ilike(documents[i].content, question)}

\* the stored documents in which at least a fifth of the words of the
\* question occur
Overlapping(question) ==
    {i \in 1..Len(documents) :
        LET question_words == WordSet(question)
            overlap == Cardinality(question_words \cap WordSet(documents[i].content))
        IN  question_words # {} /\ 5 * overlap >= Cardinality(question_words)}

\* C23: query_index returns the answer of the first tier that has one, in the
\* order vector, lexical, substring: the vector answer whenever there is one,
\* else the lexical answer, else the substring answer, else nothing.
C23_TiersInOrder ==
    (lastQuery.asked /\ ~QueryFailed) =>
        lastQuery.answer =
            IF VectorTier # NoAnswer THEN VectorTier
            ELSE IF LexicalTier # NoAnswer THEN LexicalTier
            ELSE SubstringTier

\* C24: when the vector tier and the lexical tier give nothing and no stored
\* document shares a word with the question, a question that is a
\* case-insensitive substring of a stored document's content is answered, and
\* the answer is that document's summary.
C24_SubstringGivesSummary ==
    (/\ lastQuery.asked /\ ~QueryFailed
     /\ VectorTier = NoAnswer /\ LexicalTier = NoAnswer
     /\ \A i \in 1..Len(documents) :
            ~_is_relevant_to_question(lastQuery.question, documents[i].content)) =>
        \A i \in Containing(lastQuery.question) :
            \E k \in 1..Len(lastQuery.answer.parts) :
                /\ lastQuery.answer.parts[k] = documents[i].summary
                /\ lastQuery.answer.sources[k].id = documents[i].id

\* C25: without a vector index, a question of whose words at least 20% occur
\* in a stored document is answered from that document.
C25_KeywordOverlapAnswers ==
    (lastQuery.asked /\ ~QueryFailed /\ ~manager.vector_store) =>
        \A i \in Overlapping(lastQuery.question) :
            \E k \in 1..Len(lastQuery.answer.sources) :
                lastQuery.answer.sources[k].id = documents[i].id

\* C26: query_index never raises; it returns None when a collaborator raises,
\* when no tier has an answer, and for every question asked of an empty store.
C26_QueryNeverRaises ==
    lastQuery.asked =>
        /\ ~lastQuery.raised
        /\ QueryFailed => lastQuery.answer = NoAnswer
        /\ (VectorTier = NoAnswer /\ LexicalTier = NoAnswer /\ SubstringTier = NoAnswer)
              => lastQuery.answer = NoAnswer
        /\ documents = <<>> => lastQuery.answer = NoAnswer

\* the extractor returned content of fewer than MinContentChars characters
\* after trimming
BelowFloor ==
    /\ entered # <<>>
    /\ extracted.ok
    /\ StrLen(Strip(extracted.content)) < MinContentChars

\* C27: for extracted content below the floor of 10 characters after trimming
\* no DocumentProcessedEvent is created, the run fails at document processing
\* and enrichment is never entered.
C27_BelowFloorRejected ==
    BelowFloor =>
        /\ document = NoEvent
        /\ inflight.type = "StopEvent"
        /\ inflight.result.status = "error"
        /\ inflight.result.error_stage = "document_processing"
        /\ entered = <<"process_document">>
        /\ Done => (result.status = "error" /\ result.error_stage = "document_processing")

\* a run on five characters of content with a valid title has ended
C27_Witness ==
    /\ Done /\ BelowFloor
    /\ extracted.content # NoText /\ ~Blank(extracted.content)
    /\ StrLen(Strip(extracted.title)) >= MinTitleChars
    /\ result.status = "error"

\* run_async_task has returned control to its caller
HandlerDone == call.st = "returned"

\* C28: run_async_task returns exactly the value of a coroutine that returns
\* before the timeout, and raises the very exception of a coroutine that
\* raises.
C28_ResultOrSameException ==
    HandlerDone =>
        /\ coroutine.behaviour.kind = "returns" =>
              outcome = Result(coroutine.behaviour.value)
        /\ coroutine.behaviour.kind = "raises" =>
              outcome = Raised(coroutine.behaviour.value)

\* a coroutine raised ValueError while the caller's loop was running, and
\* run_async_task raised it
C28_Witness ==
    /\ HandlerDone /\ call.loop_running
    /\ coroutine.behaviour = [kind |-> "raises", value |-> "ValueError"]
    /\ coroutine.starts = 1
    /\ outcome.kind = "raised"

\* C29: for a coroutine that does not finish within the timeout,
\* run_async_task raises TimeoutError, the coroutine has been cancelled, and
\* when control is back no task of the call is tracked in active_tasks,
\* pending on a loop or still running.
C29_TimeoutCancelsTask ==
    (HandlerDone /\ coroutine.behaviour.kind \in {"slow", "blocks"}) =>
        /\ outcome = Raised("TimeoutError")
        /\ coroutine.st = "cancelled"
        /\ active_tasks = {}
        /\ loopTask # "pending"
        /\ threadTask.st = "done"

\* C30: a call made while a loop is running in the calling thread starts the
\* coroutine exactly once, and when control is back no task created for it
\* is pending or has ended with an exception nobody retrieves.
C30_RunningLoopOneExecution ==
    (HandlerDone /\ call.loop_running) =>
        /\ coroutine.starts = 1
        /\ loopTask \notin {"pending", "failed"}

\* a step ends: a step of one piece was entered and has returned, or
\* enhance_content has returned from the gather or from its timeout handler
StepEnds ==
    /\ pc' = "running" /\ active' = "none"
    /\ entered' # entered \/ active # "none"

\* the event a step that ends leaves in flight is the one declared for the
\* step or the StopEvent
StepEmits ==
    StepEnds => /\ inflight' # inflight
                /\ inflight'.type \in {Emits(entered'[Len(entered')]), "StopEvent"}

\* the run has ended on a stop event of a step, or the runner ended it with
\* its own failure report
EndedOnReport ==
    \/ inflight.type = "StopEvent" /\ result = inflight.result
    \/ result = TimeoutReport
    \/ result.status = "failed"

\* C31: every run ends: the runner returns a report (the result of a stop
\* event, or its own timeout or failure report) after at most four steps were
\* entered, without raising, and every step that ends leaves the event of
\* the next stage or a stop event in flight.
C31_RunEnds ==
    /\ <>Done
    /\ [](Done => (EndedOnReport /\ ~raisedOut))
    /\ [](Len(entered) <= 4)
    /\ [][StepEmits]_vars

\* a run that ended on the stop event of the fourth step
C31_Witness ==
    /\ Done /\ Len(entered) = 4
    /\ inflight.type = "StopEvent" /\ result = inflight.result
    /\ result.status = "success"

\* the enrichment has paired questions and answers, at least three of them,
\* at least three key points and a summary of at least 50 characters
WellFormedEnrichment(e) ==
    /\ Len(e.questions) = Len(e.answers)
    /\ Len(e.questions) >= MinQAPairs
    /\ Len(e.key_points) >= MinKeyPoints
    /\ StrLen(e.summary) >= MinSummaryChars

\* generate_notebook was entered
Assembling == \E i \in 1..Len(entered) : entered[i] = "generate_notebook"

\* C32: the enhanced event in flight, and the one carried by the notebook
\* event, has as many questions as answers, at least three pairs, at least
\* three key points and a summary of at least 50 characters; a run entered
\* generate_notebook only with a result of enhance_document that satisfies
\* all of these, and a result that violates one of them ends the step with a
\* StopEvent.
C32_EnrichmentWellFormed ==
    /\ inflight.type = "ContentEnhancedEvent" => WellFormedEnrichment(inflight)
    /\ inflight.type = "NotebookReadyEvent" =>
           WellFormedEnrichment(inflight.enhanced_event)
    /\ Assembling =>
           /\ enhanced.returned
           /\ WellFormedEnrichment([enhanced.content EXCEPT
                                       !.summary = Strip(enhanced.content.summary)])
    /\ (enhanced.returned /\ active = "none"
           /\ ~WellFormedEnrichment([enhanced.content EXCEPT
                                       !.summary = Strip(enhanced.content.summary)])) =>
           /\ ~Assembling
           /\ pc = "running" => inflight.type = "StopEvent"

\* the notebook event of a run carries an enrichment of exactly three pairs
C32_Witness ==
    /\ inflight.type = "NotebookReadyEvent" /\ Assembling
    /\ Len(inflight.enhanced_event.questions) = MinQAPairs
    /\ enhanced.returned /\ ~enhanced.allRaised

\* a result of enhance_document with fewer than three pairs ended the run
C32_Rejected ==
    /\ enhanced.returned /\ Len(enhanced.content.questions) < MinQAPairs
    /\ inflight.type = "StopEvent"

\* the text has a period at one of the 0-based indexes lo..hi
DotIn(t, lo, hi) ==
    \E i \in 1..Len(t) :
        /\ t[i].c = "."
        /\ RangeLen(t, 1, i - 1) <= hi
        /\ RangeLen(t, 1, i) - 1 >= lo

\* enhance_document has prepared the prompt copy of the document in flight
Prepared == active = "enhance_content" /\ inflight.type = "DocumentProcessedEvent"

\* C33: the prompt copy is never longer than chunk_size; a normalized content
\* within the ceiling is kept whole; a longer one is cut just after the last
\* period of its first chunk_size characters when that period lies beyond 80%
\* of the ceiling, and at exactly chunk_size characters otherwise.
C33_PreparedWithinCeiling ==
    Prepared =>
        LET content == Strip(Normalize(inflight.raw_content))
            n == StrLen(prepared)
        IN  /\ n <= chunk_size
            /\ StrLen(content) <= chunk_size => prepared = content
            /\ StrLen(content) > chunk_size =>
                   /\ prepared = Take(content, n)
                   /\ IF DotIn(content, (chunk_size * 8) \div 10 + 1, chunk_size - 1)
                      THEN /\ DotIn(content, n - 1, n - 1)
                           /\ ~DotIn(content, n, chunk_size - 1)
                      ELSE n = chunk_size

\* a content longer than the ceiling was cut after its period, short of the
\* ceiling
C33_Witness ==
    /\ Prepared
    /\ StrLen(Strip(Normalize(inflight.raw_content))) > chunk_size
    /\ StrLen(prepared) < chunk_size
    /\ prepared[Len(prepared)].c = "."

\* a content longer than the ceiling whose last period is not beyond 80% of
\* the ceiling was cut at the ceiling
C33_CutAtCeiling ==
    /\ Prepared
    /\ StrLen(Strip(Normalize(inflight.raw_content))) > chunk_size
    /\ DotIn(prepared, 0, chunk_size - 1)
    /\ StrLen(prepared) = chunk_size

\* the number of words of the question longer than three characters that
\* are words of the sentence, both in lower case
Score(question, sentence) ==
    Cardinality({w \in WordSet(question) :
                    StrLen(w) > MinKeywordChars /\ w \in WordSet(sentence)})

\* the score of each sentence of the content of the last call
SnippetScores ==
    [k \in 1..Len(Sentences(lastSnippet.content)) |->
        Score(lastSnippet.question, Sentences(lastSnippet.content)[k])]

\* the first max_length characters of the content, with "..." if it is longer
ContentPrefix(content) ==
    IF StrLen(content) > max_length
    THEN Canon(Take(content, max_length) \o <<Run(".", 3)>>)
    ELSE content

\* the sentences u[1], .., u[n], each stripped and followed by ". "
RECURSIVE JoinUsed(_, _, _)
JoinUsed(ss, u, i) ==
    IF i > Len(u) THEN <<>>
    ELSE Strip(ss[u[i]]) \o <<Run(".", 1), Run("s", 1)>> \o JoinUsed(ss, u, i + 1)

\* u lists distinct scored sentences by descending score, and no sentence
\* left out has a higher score than one that is listed
TopOrder(score, u) ==
    /\ \A i \in 1..Len(u) : score[u[i]] > 0
    /\ \A i, j \in 1..Len(u) : i < j => u[i] # u[j] /\ score[u[i]] >= score[u[j]]
    /\ \A k \in DOMAIN score :
           (\A i \in 1..Len(u) : u[i] # k) => score[k] <= score[u[Len(u)]]

\* the text is made of at most TopSentences sentences of ss in top order
MadeOfTop(text, ss, score) ==
    \E n \in 1..TopSentences :
        \E u \in [1..n -> {k \in DOMAIN score : score[k] > 0}] :
            /\ TopOrder(score, u)
            /\ text = Strip(Canon(JoinUsed(ss, u, 1)))

\* C34: the snippet is the prefix of the content (with "..." when the content
\* is longer than max_length) if no sentence has a word of the question
\* longer than three characters; otherwise it is made of at most three
\* sentences with such a word, by descending score, none of a lower score
\* than one left out, and has at most max_length characters, or it is that
\* prefix because the best sentence alone does not fit.
C34_SnippetWithinCap ==
    lastSnippet.called =>
        LET ss == Sentences(lastSnippet.content)
            text == lastSnippet.text
        IN  /\ StrLen(text) <= max_length + 3
            /\ StrLen(text) > max_length =>
                   text = Canon(Take(lastSnippet.content, max_length) \o <<Run(".", 3)>>)
            /\ (\A k \in 1..Len(ss) : SnippetScores[k] = 0) =>
                   text = ContentPrefix(lastSnippet.content)
            /\ (\E k \in 1..Len(ss) : SnippetScores[k] > 0) =>
                   \/ MadeOfTop(text, ss, SnippetScores)
                   \/ /\ text = ContentPrefix(lastSnippet.content)
                      /\ \E k \in 1..Len(ss) :
                            /\ \A j \in 1..Len(ss) : SnippetScores[j] <= SnippetScores[k]
                            /\ StrLen(Strip(ss[k])) >= max_length

\* four sentences have a keyword, a later one more than the first, and the
\* snippet is made of sentences
C34_Witness ==
    /\ lastSnippet.called
    /\ Cardinality({k \in DOMAIN SnippetScores : SnippetScores[k] > 0}) >= 4
    /\ SnippetScores[1] < SnippetScores[Len(SnippetScores)]
    /\ lastSnippet.text # ContentPrefix(lastSnippet.content)
    /\ MadeOfTop(lastSnippet.text, Sentences(lastSnippet.content), SnippetScores)

\* the best sentence has 800 characters and the snippet is the prefix of the
\* content with "..."
C34_PrefixUsed ==
    /\ lastSnippet.called
    /\ \E k \in DOMAIN SnippetScores : SnippetScores[k] > 0
    /\ StrLen(lastSnippet.text) = max_length + 3

\* C35: with an embedding model, search_documents returns only rows that
\* have a content embedding; the rows put_document stored have none, so for
\* every question and whatever the similarity search_documents returns the
\* empty list, and query_index returned None when the vector tier gave
\* nothing.
C35_EmbeddingSearchEmpty ==
    (lastQuery.asked /\ manager.embedding_model) =>
        /\ \A i \in 1..Len(documents) : ~documents[i].content_embedded
        /\ \A question \in Questions, f \in QueryFaults :
               LET found == search_documents(manager, documents, question, f,
                                             SearchLimit, SimilarityThreshold)
               IN  /\ found = <<>>
                   /\ \A k \in 1..Len(found) :
                          \E i \in 1..Len(documents) :
                              /\ documents[i].id = found[k].doc.id
                              /\ documents[i].content_embedded
        /\ VectorTier = NoAnswer => lastQuery.answer = NoAnswer

\* with an embedding model and nothing from the vector tier, a question that
\* is part of a stored content was asked, nothing failed, and query_index
\* returned None
C35_Witness ==
    /\ lastQuery.asked /\ manager.embedding_model
    /\ ~QueryFailed
    /\ VectorTier = NoAnswer
    /\ Len(documents) = 2
    /\ Containing(lastQuery.question) # {}
    /\ lastQuery.answer = NoAnswer

C36_Replaced ==
    /\ lastRun.st = "returned" /\ lastRun.ran
    /\ lastRun.existing_result # NoStored
    /\ lastRun.existing_result.status = "timeout"
    /\ session[lastRun.session_key].status = "success"

\* C37: the runs that stored their documents used different document ids:
\* no two put_document calls of the page were issued for the same id.
C37_DistinctDocumentIds ==
    \A i, j \in 1..Len(issued) : issued[i] = issued[j] => i = j

\* what an MCP override may do to the event its parent step returned: keep its
\* type, and keep it whole when it is a failure result
MCPKeeps(base, out) ==
    /\ out.type = base.type
    /\ base.type = "StopEvent" => out = base

\* a step of the MCP workflow returns what the step of EnhancedWorkflowV2
\* returns for the same event and the same collaborators, up to MCPKeeps, and
\* the runner returns the result of the run with at most mcp_status added
MCPStepKeeps ==
    /\ (pc = "running" /\ entered' # entered) =>
         LET step == entered'[Len(entered')]
         IN  CASE step = "process_document" ->
                      \E d \in DoclingOutcomes, p \in PdfOutcomes :
                          MCPKeeps(process_document(inflight, d, p), inflight')
               [] step = "enhance_content" -> inflight' = inflight
               [] step = "generate_notebook" ->
                      \E m \in MindMapOutcomes :
                          MCPKeeps(generate_notebook(inflight, m), inflight')
               [] OTHER -> inflight' = finalize_workflow(inflight)
    /\ (active = "enhance_content" /\ active' = "none" /\ pc' = "running") =>
         MCPKeeps(enhance_content(inflight, enhanced'.content), inflight')
    /\ (pc = "running" /\ pc' = "done" /\ inflight.type = "StopEvent") =>
         /\ DOMAIN inflight.result \subseteq DOMAIN result'
         /\ DOMAIN result' \ DOMAIN inflight.result \subseteq {"mcp_status"}
         /\ \A k \in DOMAIN inflight.result : result'[k] = inflight.result[k]

\* C38: a failure of an MCP call (initialisation, file metadata, memory store,
\* similar-document search, status summary, health check) never makes a run
\* fail or raise: the runner never raises, every step of the MCP workflow
\* returns an event of the type its parent step returned, a failure result of
\* a parent step is returned unchanged, and the result of the run is the
\* parent's result with at most mcp_status added, so its status is the one
\* the run has with MCP disabled
C38_MCPFailureNeverFailsRun ==
    /\ [](~raisedOut)
    /\ [][MCPStepKeeps]_vars

\* a run with MCP enabled and initialised ended with status success although
\* the memory store and the health check failed
C38_Witness ==
    /\ Done /\ result.status = "success"
    /\ MCPActive(mcp) /\ "memory" \in mcp.tools
    /\ mcpMemory = <<>>
    /\ result.mcp_status.status = "error"

====
